---- MODULE Spec2Model ----
(***************************************************************************)
(* State-machine model of the cookmate backend (src/src/app.ts) over the   *)
(* relational store declared in src/supabase/schema.sql.                   *)
(*                                                                         *)
(* Every HTTP request is a process living in a slot of `req`.  A handler   *)
(* runs one store call per step (each `await s.from(...)` of the source is *)
(* one atomic action), so requests interleave exactly at the awaits.       *)
(* A request that answers leaves its slot; `resp` is the response sent by  *)
(* the step just taken, with the request it answers (Idle when that step   *)
(* sent none).  `proc` is the server process: its environment and how far  *)
(* its start-up has come; requests arrive once it listens.                 *)
(***************************************************************************)
EXTENDS Integers, FiniteSets, Sequences, TLC

VARIABLES users, profiles, worker_profiles, service_posts, requirements,
          nextId, req, resp, proc

vars == <<users, profiles, worker_profiles, service_posts, requirements, nextId, req, resp, proc>>

store == <<users, profiles, worker_profiles, service_posts, requirements, nextId>>

-----------------------------------------------------------------------------
(* Bounds of the model *)

\* number of requests in flight at the same time in the workloads that are
\* explored request by request
MaxSlots == 1

\* number of requests in flight at the same time in the workloads that are
\* about overlapping requests
MaxOverlap == 2

\* number of ids each table hands out (rows ever inserted per table)
MaxRows == 2

\* length of the longest list of texts a client sends to be translated
MaxTexts == 6

Slots == 1..(IF MaxSlots > MaxOverlap THEN MaxSlots ELSE MaxOverlap)

\* the slots a workload with at most n requests in flight uses
In(n) == 1..n

-----------------------------------------------------------------------------
(* Values *)

NULL == "NULL"

Identities == {"authA", "authB"}

\* bearer tokens a client may send; "" is a missing Authorization header
Tokens == {"tokA", "tokB", "expired", ""}

Roles == {"RESIDENT", "WORKER"}

Names == {"Asha", "Ravi"}

\* the third phone is the first one with surrounding blanks
Phones == {"9000000001", "9000000002", " 9000000001 "}

Blocks == {NULL, "J"}

WorkerTypes == {"COOK", "MAID"}

Urgencies == {"LOW", "MEDIUM", "HIGH"}

\* JavaScript truthiness of a text: neither null (or undefined) nor ''
Truthy(x) == x \notin {NULL, ""}

Tables == {"users", "profiles", "worker_profiles", "service_posts", "requirements"}

\* ten blanks: long enough for z.string().min(10)
BlankPhone == "          "

\* String.prototype.trim on the phone numbers of the model
Trim(s) ==
    CASE s = " 9000000001 " -> "9000000001"
      [] s = BlankPhone -> ""
      [] OTHER -> s

\* charges a client may send; z.number().min(1) refuses the first
Charges == {0, 500}

\* experienceYrs a client may send: a number, or {} when the field is left out
Experiences == {{}, {0}, {3}}

\* an identity provider that does not look at the expiry of a token
GetUser_AcceptsExpired(token) ==
    CASE token = "tokA" -> {"authA"}
      [] token = "tokB" -> {"authB"}
      [] token = "expired" -> {"authA"}
      [] OTHER -> {}

\* supabaseAuth.auth.getUser(token): the identity a token stands for, {} when
\* the identity provider rejects it
GetUser(token) ==
    CASE token = "tokA" -> {"authA"}
      [] token = "tokB" -> {"authB"}
      [] OTHER -> {}

-----------------------------------------------------------------------------
(* Query results: .maybeSingle() and .single() of the store client.        *)
(* data is the set holding the one row, or {} for null.                    *)

MaybeSingle(S) ==
    [data |-> IF Cardinality(S) = 1 THEN S ELSE {}, error |-> Cardinality(S) > 1]

Single(S) ==
    [data |-> IF Cardinality(S) = 1 THEN S ELSE {}, error |-> Cardinality(S) # 1]

TheRow(S) == CHOOSE x \in S : TRUE

-----------------------------------------------------------------------------
(* Row-level security: the rows of each table the client of identity uid   *)
(* may see or modify (policies of schema.sql).                             *)

\* users_select_self / users_update_self
UsersOf(uid) == {u \in users : u.auth_id = uid}

OwnUserIds(uid) == {u.id : u \in UsersOf(uid)}

\* profiles_policy (for all)
ProfilesOf(uid) == {p \in profiles : p.user_id \in OwnUserIds(uid)}

\* worker_profiles_policy (for all)
WorkerProfilesOf(uid) == {w \in worker_profiles : w.user_id \in OwnUserIds(uid)}

OwnWorkerIds(uid) == {w.id : w \in WorkerProfilesOf(uid)}

\* service_posts_modify (for all); service_posts_select lets everyone read
ServicePostsOf(uid) == {p \in service_posts : p.worker_id \in OwnWorkerIds(uid)}

\* requirements_modify (for all); requirements_select lets everyone read
RequirementsOf(uid) == {q \in requirements : q.owner_id \in OwnUserIds(uid)}

-----------------------------------------------------------------------------
(* Constraints of the tables: the error an insert or update meets.  23505  *)
(* is Postgres' unique_violation; `constraint` is the constraint named in  *)
(* the error message.  PGRST116 is the store client's error for .single()  *)
(* on a result that is not exactly one row.                                *)

NoError == [code |-> NULL, constraint |-> NULL]

UniqueViolation(c) == [code |-> "23505", constraint |-> c]

NotSingular == [code |-> "PGRST116", constraint |-> NULL]

UsersInsertError_NoUnique(authId) == NoError

\* users.auth_id uuid not null unique
UsersInsertError(authId) ==
    IF \E u \in users : u.auth_id = authId
    THEN UniqueViolation("users_auth_id_key")
    ELSE NoError

\* the table without the unique index on phone
ProfilesInsertError_NoPhoneIndex(userId, phone) ==
    IF \E p \in profiles : p.user_id = userId
    THEN UniqueViolation("profiles_user_id_key")
    ELSE NoError

\* the table without the unique index on user_id
ProfilesInsertError_NoUserIndex(userId, phone) ==
    IF \E p \in profiles : p.phone = phone
    THEN UniqueViolation("profiles_phone_key")
    ELSE NoError

\* profiles.user_id unique, profiles.phone unique: the indexes are checked in
\* the order the table declares them
ProfilesInsertError(userId, phone) ==
    IF \E p \in profiles : p.user_id = userId
    THEN UniqueViolation("profiles_user_id_key")
    ELSE IF \E p \in profiles : p.phone = phone
    THEN UniqueViolation("profiles_phone_key")
    ELSE NoError

\* an update of the rows `rows` to phone `phone`
ProfilesUpdateError(rows, phone) ==
    IF rows # {} /\ (Cardinality(rows) > 1 \/ \E p \in profiles \ rows : p.phone = phone)
    THEN UniqueViolation("profiles_phone_key")
    ELSE NoError

\* worker_profiles.user_id unique
WorkerProfilesInsertError(userId) ==
    IF \E w \in worker_profiles : w.user_id = userId
    THEN UniqueViolation("worker_profiles_user_id_key")
    ELSE NoError

-----------------------------------------------------------------------------
(* Views (schema.sql): joins over the whole tables; a view is read with    *)
(* its owner's rights, so row-level security does not filter it.           *)

NoProfile == [name |-> NULL, phone |-> NULL, block |-> NULL]

NoWorker == [worker_type |-> NULL]

LeftJoin(S, none) == IF S = {} THEN {none} ELSE S

\* the columns that hold a number or a boolean are the set of their value, {}
\* for the null of a left join without a match
users_view ==
    {[id |-> u.id, auth_id |-> u.auth_id, role |-> u.role,
      name |-> p.name, phone |-> p.phone, block |-> p.block,
      verified |-> IF p = NoProfile THEN {} ELSE {p.verified},
      worker_type |-> w.worker_type,
      experience_yrs |-> IF w = NoWorker THEN {} ELSE {w.experience_yrs},
      charges |-> IF w = NoWorker THEN {} ELSE {w.charges}] :
        <<u, p, w>> \in {t \in users \X (profiles \cup {NoProfile}) \X (worker_profiles \cup {NoWorker}) :
            /\ t[2] \in LeftJoin({x \in profiles : x.user_id = t[1].id}, NoProfile)
            /\ t[3] \in LeftJoin({x \in worker_profiles : x.user_id = t[1].id}, NoWorker)}}

service_posts_view ==
    {[id |-> sp.id, worker_id |-> sp.worker_id, is_active |-> sp.is_active,
      user_id |-> wp.user_id, role |-> u.role, auth_id |-> u.auth_id] :
        <<sp, wp, u>> \in {t \in service_posts \X worker_profiles \X users :
            t[2].id = t[1].worker_id /\ t[3].id = t[2].user_id}}

requirements_view ==
    {[id |-> q.id, owner_id |-> q.owner_id, need_type |-> q.need_type,
      urgency |-> q.urgency, is_open |-> q.is_open, role |-> u.role] :
        <<q, u>> \in {t \in requirements \X users : t[2].id = t[1].owner_id}}

-----------------------------------------------------------------------------
(* Requests *)

NoBody == [none |-> TRUE]

NoLoc == [none |-> TRUE]

NoOut == [none |-> TRUE]

Idle ==
    [op |-> NULL, token |-> "", auth |-> "none", caller |-> NULL, body |-> NoBody, id |-> 0,
     pc |-> "idle", loc |-> NoLoc, status |-> 0, out |-> NoOut]

\* routes registered with the requireAuth middleware
Protected ==
    {"POST /select-role", "POST /profile", "GET /me", "POST /auth/sync", "POST /services",
     "GET /my-services", "PATCH /services/:id/toggle", "DELETE /services/:id",
     "DELETE /requirements/:id", "POST /requirements", "POST /worker-profile",
     "GET /worker-profile", "POST /admin/verify-user", "POST /verify-me"}

\* the zod schemas: whether safeParse succeeds on the body
RoleSelectionBody(body) == body.role \in Roles

ProfileBody(body) == body.name \in Names /\ body.phone \in Phones \cup {BlankPhone}

WorkerProfileBody(body) ==
    /\ body.workerType \in WorkerTypes
    /\ \A y \in body.experienceYrs : y >= 0
    /\ body.charges >= 1

\* parsed.data.experienceYrs: z.number().min(0).default(0)
ExperienceYrs(body) == IF body.experienceYrs = {} THEN 0 ELSE TheRow(body.experienceYrs)

ServicePostBody(body) == body.title # ""

\* parsed.data of RequirementPostBody: urgency is z.enum(...).default('MEDIUM')
RequirementPostBody_DefaultLow(body) ==
    [body EXCEPT !.urgency = IF body.urgency = NULL THEN "LOW" ELSE body.urgency]

RequirementPostBody(body) ==
    [body EXCEPT !.urgency = IF body.urgency = NULL THEN "MEDIUM" ELSE body.urgency]

\* the schema of POST /admin/verify-user: userId and authId are optional uuids
\* (userId is the set of the id sent, authId is NULL when left out)
AdminVerifyBody(body) == body.authId \in Identities \cup {NULL}

\* result.data.verified: z.boolean().default(true)
Verified(body) == IF body.verified = {} THEN TRUE ELSE TheRow(body.verified)

\* the schemas of POST /translate and POST /translate-batch: z.string().min(1)
\* for the text and for each of the texts
TranslateBody(body) == body.text.word # ""

TranslateBatchBody(body) == \A k \in DOMAIN body.texts : body.texts[k].word # ""

\* the schema of POST /detect-language
DetectLanguageBody(body) == body.text.word # ""

Valid(op, body) ==
    CASE op = "POST /select-role" -> RoleSelectionBody(body)
      [] op = "POST /translate" -> TranslateBody(body)
      [] op = "POST /translate-batch" -> TranslateBatchBody(body)
      [] op = "POST /detect-language" -> DetectLanguageBody(body)
      [] op = "POST /admin/verify-user" -> AdminVerifyBody(body)
      [] op = "POST /profile" -> ProfileBody(body)
      [] op = "POST /worker-profile" -> WorkerProfileBody(body)
      [] op = "POST /services" -> ServicePostBody(body)
      [] op = "POST /requirements" -> body.needType \in {"COOK", "MAID", "BOTH"}
      [] OTHER -> TRUE

\* the first store call of each handler
FirstPc(op) ==
    CASE op = "POST /select-role" -> "sr_load"
      [] op = "POST /profile" -> "pf_user"
      [] op = "POST /auth/sync" -> "as_load"
      [] op = "GET /services" -> "gs_list"
      [] op = "POST /services" -> "ps_user"
      [] op = "PATCH /services/:id/toggle" -> "tg_lookup"
      [] op = "DELETE /services/:id" -> "ds_lookup"
      [] op = "DELETE /requirements/:id" -> "dr_user"
      [] op = "GET /requirements" -> "gr_list"
      [] op = "POST /requirements" -> "pr_user"
      [] op = "POST /worker-profile" -> "wp_user"
      [] op = "POST /verify-me" -> "vm_load"
      [] op = "GET /me" -> "me_load"
      [] op = "GET /my-services" -> "ms_list"
      [] op = "GET /worker-profile" -> "gw_user"

\* the response to request q, with the request's route, caller and :id
Respond(q, status, out) ==
    [q EXCEPT !.pc = "done", !.body = NoBody, !.loc = NoLoc, !.status = status, !.out = out]

Err(msg) == [error |-> msg]

\* POST /admin/verify-user up to its first await: the target is body.userId, or
\* is looked up by body.authId when only that is sent
AdminVerifyBegin(a) ==
    IF a.body.userId = {} /\ a.body.authId = NULL
    THEN Respond(a, 400, Err("Either userId or authId must be provided"))
    ELSE IF a.body.userId = {}
    THEN [a EXCEPT !.pc = "av_user"]
    ELSE [a EXCEPT !.pc = "av_update", !.loc = [targetUserId |-> TheRow(a.body.userId)]]

-----------------------------------------------------------------------------
(* Translation (translation.ts) and its routes.  A text is a record: the   *)
(* word it says, the language it is in and its form: "plain", "quoted"     *)
(* (a quote at both ends), "padded" (blanks at both ends) or "inner"       *)
(* (quotes inside).                                                        *)

SUPPORTED_LANGUAGES == {"en", "hi", "ta", "te", "kn", "ml", "bn", "mr", "gu", "pa"}

\* the properties every object literal inherits
ObjectPrototype ==
    {"constructor", "toString", "valueOf", "hasOwnProperty", "isPrototypeOf",
     "propertyIsEnumerable", "toLocaleString", "__proto__"}

\* code in SUPPORTED_LANGUAGES
InSupported(code) == code \in SUPPORTED_LANGUAGES \cup ObjectPrototype

batchSize == 5

Text(word, lang, form) == [word |-> word, lang |-> lang, form |-> form]

\* the external call of one text has not been issued, or is in flight
Unissued == Text("", NULL, "unissued")

Pending == Text("", NULL, "pending")

\* model.generateContent(prompt) throws or rejects
Failure == Text("", NULL, "error")

\* what the external service may answer to a request to translate text: the
\* text in the other language, in any form, or a failure
Outcomes(text, toLanguage) ==
    {Failure} \cup {Text(text.word, toLanguage, f) : f \in {"plain", "quoted", "padded"}}

\* response.text().trim(), then .replace(/^["']|["']$/g, '')
Clean(reply) ==
    [reply EXCEPT !.form = IF @ \in {"quoted", "padded"} THEN "plain" ELSE @]

\* a translateText that cleans its input as it cleans a reply
TranslateSame_Cleaned(text) == Clean(text)

\* translateText with fromLanguage === toLanguage: return text
TranslateSame(text) == text

\* a translateText without the fallback of its catch block
Translated_NoFallback(text, outcome) == Clean(outcome)

\* translateText after its external call: the cleaned reply, or in the catch
\* block the original text
Translated(text, outcome) == IF outcome = Failure THEN text ELSE Clean(outcome)

Min(a, b) == IF a < b THEN a ELSE b

\* a loop that hands over all the texts that are left at once
Chunk_Whole(texts, i) == (i + 1)..Len(texts)

\* the indexes (from 1) of texts.slice(i, i + batchSize)
Chunk(texts, i) == (i + 1)..Min(i + batchSize, Len(texts))

\* results handed over last first
BatchResults_Reversed(texts, i, calls) ==
    LET n == Cardinality(Chunk(texts, i)) IN
    [j \in 1..n |-> Translated(texts[i + n + 1 - j], calls[i + n + 1 - j])]

\* await Promise.all(promises): the results of the chunk that starts at i, in
\* the order of the chunk
BatchResults(texts, i, calls) ==
    [j \in 1..Cardinality(Chunk(texts, i)) |-> Translated(texts[i + j], calls[i + j])]

\* the fields both translation routes answer with
Translation(b) == [fromLanguage |-> b.fromLanguage, toLanguage |-> b.toLanguage]

\* the response with the handler's locals kept: the outcome of each call
RespondWith(q, status, out) ==
    [q EXCEPT !.pc = "done", !.body = NoBody, !.status = status, !.out = out]

\* what the external service may answer when asked for the language of a
\* text: a code of the list it was given, as asked for or in capitals,
\* between blanks or in quotes, the code of another language, a sentence,
\* nothing, a word that names something every object has; or it fails
Said(reply) == [kind |-> "reply", text |-> reply]

Replies ==
    {Failure}
    \cup {Said(t) : t \in SUPPORTED_LANGUAGES}
    \cup {Said(t) : t \in {"HI", " ta ", "\"hi\"", "fr", "Hindi", "", "constructor",
                           "toString", "__proto__"}}

\* response.text().trim().toLowerCase()
TrimLower(text) ==
    CASE text = "HI" -> "hi"
      [] text = " ta " -> "ta"
      [] text = "Hindi" -> "hindi"
      [] text = "toString" -> "tostring"
      [] OTHER -> text

\* detectLanguage after its external call: the reply trimmed and in small
\* letters if it is in SUPPORTED_LANGUAGES, otherwise, and in the catch
\* block, 'en'
Detected(reply) ==
    IF reply = Failure THEN "en"
    ELSE IF InSupported(TrimLower(reply.text)) THEN TrimLower(reply.text)
    ELSE "en"

\* POST /detect-language up to its await
DetectLanguageBegin(a) == [a EXCEPT !.pc = "dl_call", !.loc = [call |-> Pending]]

\* POST /translate up to its first await
TranslateBegin(a) ==
    LET b == a.body IN
    IF ~InSupported(b.fromLanguage) \/ ~InSupported(b.toLanguage)
    THEN Respond(a, 400, Err("Unsupported language code"))
    ELSE IF b.fromLanguage = b.toLanguage
    THEN RespondWith([a EXCEPT !.loc = [call |-> Unissued]], 200,
            [originalText |-> b.text, translatedText |-> TranslateSame(b.text),
             languages |-> Translation(b)])
    ELSE [a EXCEPT !.pc = "tr_call", !.loc = [call |-> Pending]]

\* translateBatch from the start of the turn of its loop with index i: the
\* texts of the chunk are handed to translateText, which issues their calls
BatchTurn(a, i, results, calls) ==
    IF i >= Len(a.body.texts)
    THEN RespondWith([a EXCEPT !.loc = [i |-> i, calls |-> calls]], 200,
            [originalTexts |-> a.body.texts, translatedTexts |-> results,
             languages |-> Translation(a.body)])
    ELSE [a EXCEPT !.pc = "tb_chunk",
                   !.loc = [i |-> i, results |-> results,
                            calls |-> [k \in DOMAIN calls |->
                                        IF k \in Chunk(a.body.texts, i) THEN Pending ELSE calls[k]]]]

\* POST /translate-batch up to its first await; with fromLanguage === toLanguage
\* no promise of any chunk waits for anything
TranslateBatchBegin(a) ==
    LET b == a.body IN
    IF ~InSupported(b.fromLanguage) \/ ~InSupported(b.toLanguage)
    THEN Respond(a, 400, Err("Unsupported language code"))
    ELSE IF b.fromLanguage = b.toLanguage
    THEN RespondWith([a EXCEPT !.loc = [i |-> Len(b.texts), calls |-> [k \in DOMAIN b.texts |-> Unissued]]],
            200, [originalTexts |-> b.texts,
                  translatedTexts |-> [k \in DOMAIN b.texts |-> TranslateSame(b.texts[k])],
                  languages |-> Translation(b)])
    ELSE BatchTurn(a, 0, <<>>, [k \in DOMAIN b.texts |-> Unissued])

\* the handler up to its first await: body validation
EnterHandler(a) ==
    IF a.op \in {"POST /admin/verify-user", "POST /translate", "POST /translate-batch",
                 "POST /detect-language"}
    THEN IF ~Valid(a.op, a.body) THEN Respond(a, 400, Err("Invalid request format"))
         ELSE IF a.op = "POST /translate" THEN TranslateBegin(a)
         ELSE IF a.op = "POST /detect-language" THEN DetectLanguageBegin(a)
         ELSE IF a.op = "POST /translate-batch" THEN TranslateBatchBegin(a)
         ELSE AdminVerifyBegin(a)
    ELSE IF ~Valid(a.op, a.body) THEN Respond(a, 422, Err("Validation failed"))
    ELSE [a EXCEPT !.pc = FirstPc(a.op)]

\* requireAuth on the protected routes, then the handler.  thrown: the call
\* of the identity provider throws.  auth records how the middleware ended:
\* "none" (public route, not run), "missing", "thrown", "rejected" or "user".
Entered(op, token, thrown, body, id) ==
    LET q == [Idle EXCEPT !.op = op, !.token = token, !.body = body, !.id = id] IN
    IF op \notin Protected THEN EnterHandler(q)
    ELSE IF token = "" THEN Respond([q EXCEPT !.auth = "missing"], 401, Err("No token provided"))
    ELSE IF thrown THEN Respond([q EXCEPT !.auth = "thrown"], 401, Err("Auth failed"))
    ELSE IF GetUser(token) = {}
    THEN Respond([q EXCEPT !.auth = "rejected"], 401, Err("Invalid token"))
    ELSE EnterHandler([q EXCEPT !.auth = "user", !.caller = TheRow(GetUser(token))])

\* the slot's request moves on to n: it waits for its next store call, or it
\* has answered and leaves the slot
Put(r, n) ==
    /\ IF n.pc = "done"
       THEN req' = [req EXCEPT ![r] = Idle] /\ resp' = n
       ELSE req' = [req EXCEPT ![r] = n] /\ resp' = Idle
    /\ UNCHANGED proc

\* a request arrives and takes the first free slot
Receive(r, op, token, thrown, body, id) ==
    /\ proc.pc = "listening"
    /\ req[r].pc = "idle"
    /\ \A k \in 1..(r - 1) : req[k].pc # "idle"
    /\ Put(r, Entered(op, token, thrown, body, id))
    /\ UNCHANGED store

At(r, pc) == req[r].pc = pc

NewId(t) == nextId[t]

HasId(t) == nextId[t] <= MaxRows

TakeId(t) == nextId' = [nextId EXCEPT ![t] = @ + 1]

-----------------------------------------------------------------------------
(* POST /select-role *)

\* const { data: existingUser, error: euErr } = ... .eq('auth_id', authId).maybeSingle()
SelectRoleLoadUser(r) ==
    LET q == req[r]
        res == MaybeSingle({u \in UsersOf(q.caller) : u.auth_id = q.caller}) IN
    /\ At(r, "sr_load")
    /\ Put(r,
            IF res.error THEN Respond(q, 500, Err("Failed to load user"))
            ELSE IF res.data = {} THEN [q EXCEPT !.pc = "sr_insert"]
            ELSE [q EXCEPT !.pc = "sr_update"])
    /\ UNCHANGED store

\* if (!existingUser): insert({ auth_id, role }).select('id').single()
SelectRoleInsert(r) ==
    LET q == req[r]
        err == UsersInsertError(q.caller) IN
    /\ At(r, "sr_insert")
    /\ IF err # NoError
       THEN /\ Put(r, Respond(q, 500, Err("Failed to create user")))
            /\ UNCHANGED store
       ELSE /\ HasId("users")
            /\ users' = users \cup {[id |-> NewId("users"), auth_id |-> q.caller, role |-> q.body.role]}
            /\ TakeId("users")
            /\ Put(r,
                    Respond(q, 200, [userId |-> NewId("users"), role |-> q.body.role]))
            /\ UNCHANGED <<profiles, worker_profiles, service_posts, requirements>>

\* else: update({ role }).eq('auth_id', authId).select('id').single()
SelectRoleUpdate(r) ==
    LET q == req[r]
        rows == {u \in UsersOf(q.caller) : u.auth_id = q.caller} IN
    /\ At(r, "sr_update")
    /\ IF Cardinality(rows) # 1
       THEN /\ Put(r, Respond(q, 500, Err("Failed to update role")))
            /\ UNCHANGED store
       ELSE /\ users' = (users \ rows) \cup {[u EXCEPT !.role = q.body.role] : u \in rows}
            /\ Put(r,
                    Respond(q, 200, [userId |-> TheRow(rows).id, role |-> q.body.role]))
            /\ UNCHANGED <<profiles, worker_profiles, service_posts, requirements, nextId>>

-----------------------------------------------------------------------------
(* POST /auth/sync *)

\* the handler without the lookup: it always goes on to create the user
AuthSyncLoad_NoLookup(r) ==
    /\ At(r, "as_load")
    /\ Put(r, [req[r] EXCEPT !.pc = "as_insert"])
    /\ UNCHANGED store

\* let { data: user } = users_view ... .eq('auth_id', authId).maybeSingle()
AuthSyncLoad(r) ==
    LET q == req[r]
        res == MaybeSingle({u \in users_view : u.auth_id = q.caller}) IN
    /\ At(r, "as_load")
    /\ Put(r,
            IF res.data = {} THEN [q EXCEPT !.pc = "as_insert"]
            ELSE Respond(q, 200, [user |-> res.data]))
    /\ UNCHANGED store

\* insert({ auth_id, role: 'RESIDENT' }).select('id').single()
AuthSyncInsert(r) ==
    LET q == req[r]
        err == UsersInsertError(q.caller) IN
    /\ At(r, "as_insert")
    /\ IF err # NoError
       THEN /\ Put(r, Respond(q, 500, Err("Failed to create user account")))
            /\ UNCHANGED store
       ELSE /\ HasId("users")
            /\ users' = users \cup {[id |-> NewId("users"), auth_id |-> q.caller, role |-> "RESIDENT"]}
            /\ TakeId("users")
            /\ Put(r, [q EXCEPT !.pc = "as_refetch"])
            /\ UNCHANGED <<profiles, worker_profiles, service_posts, requirements>>

\* const { data: freshUser } = users_view ... .maybeSingle(); res.json({ user })
AuthSyncRefetch(r) ==
    LET q == req[r]
        res == MaybeSingle({u \in users_view : u.auth_id = q.caller}) IN
    /\ At(r, "as_refetch")
    /\ Put(r, Respond(q, 200, [user |-> res.data]))
    /\ UNCHANGED store

-----------------------------------------------------------------------------
(* POST /profile *)

\* users ... .eq('auth_id', authId).maybeSingle(); 400 without a user or a role
ProfileLoadUser(r) ==
    LET q == req[r]
        res == MaybeSingle({u \in UsersOf(q.caller) : u.auth_id = q.caller}) IN
    /\ At(r, "pf_user")
    /\ Put(r,
            IF res.error THEN Respond(q, 500, Err("Failed to load user"))
            ELSE IF res.data = {} \/ TheRow(res.data).role = NULL
            THEN Respond(q, 400, Err("Please select your role first using /select-role"))
            ELSE [q EXCEPT !.pc = "pf_profile", !.loc = [userId |-> TheRow(res.data).id]])
    /\ UNCHANGED store

\* const { data: existingProfile } = profiles ... .eq('user_id', userId).maybeSingle()
ProfileLoadProfile(r) ==
    LET q == req[r]
        res == MaybeSingle({p \in ProfilesOf(q.caller) : p.user_id = q.loc.userId}) IN
    /\ At(r, "pf_profile")
    /\ Put(r,
            [q EXCEPT !.pc = IF res.data # {} THEN "pf_update" ELSE "pf_insert"])
    /\ UNCHANGED store

\* parsed.data.block || null
OrNull(x) == IF Truthy(x) THEN x ELSE NULL

\* the columns both branches write
ProfileValues_KeepVerified(body, old) ==
    [old EXCEPT !.name = body.name, !.phone = Trim(body.phone), !.block = OrNull(body.block)]

\* a write that keeps the block the request leaves out
ProfileValues_KeepBlock(body, old) ==
    [old EXCEPT !.name = body.name, !.phone = Trim(body.phone),
                !.block = IF Truthy(body.block) THEN body.block ELSE @,
                !.verified = TRUE]

ProfileValues(body, old) ==
    [old EXCEPT !.name = body.name, !.phone = Trim(body.phone), !.block = OrNull(body.block),
                !.verified = TRUE]

\* if (profileRes.error): 23505 is 409, by the constraint's name; anything else 500
ProfileErrorResponse(q, err) ==
    IF err.code = "23505"
    THEN IF err.constraint \in {"profiles_phone_key"}
         THEN Respond(q, 409, Err("Phone number already in use"))
         ELSE Respond(q, 409, Err("Profile already exists"))
    ELSE Respond(q, 500, Err("Failed to save profile"))

\* update({...}).eq('user_id', userId).select('*').single()
ProfileUpdate(r) ==
    LET q == req[r]
        rows == {p \in ProfilesOf(q.caller) : p.user_id = q.loc.userId}
        uerr == ProfilesUpdateError(rows, Trim(q.body.phone))
        err == IF uerr # NoError THEN uerr
               ELSE IF Cardinality(rows) # 1 THEN NotSingular ELSE NoError
        new == {ProfileValues(q.body, p) : p \in rows} IN
    /\ At(r, "pf_update")
    /\ IF err # NoError
       THEN /\ Put(r, ProfileErrorResponse(q, err))
            /\ UNCHANGED store
       ELSE /\ profiles' = (profiles \ rows) \cup new
            /\ Put(r, Respond(q, 200, [data |-> new]))
            /\ UNCHANGED <<users, worker_profiles, service_posts, requirements, nextId>>

\* insert({ user_id, ..., verified: true }).select('*').single()
ProfileInsert(r) ==
    LET q == req[r]
        err == ProfilesInsertError(q.loc.userId, Trim(q.body.phone))
        row == ProfileValues(q.body,
                  [id |-> NewId("profiles"), user_id |-> q.loc.userId, name |-> NULL,
                   phone |-> NULL, block |-> NULL, verified |-> FALSE]) IN
    /\ At(r, "pf_insert")
    /\ IF err # NoError
       THEN /\ Put(r, ProfileErrorResponse(q, err))
            /\ UNCHANGED store
       ELSE /\ HasId("profiles")
            /\ profiles' = profiles \cup {row}
            /\ TakeId("profiles")
            /\ Put(r, Respond(q, 200, [data |-> {row}]))
            /\ UNCHANGED <<users, worker_profiles, service_posts, requirements>>

-----------------------------------------------------------------------------
(* POST /worker-profile *)

\* the gate without the role test
WorkerProfileLoadUser_AnyRole(r) ==
    LET q == req[r]
        res == MaybeSingle({u \in UsersOf(q.caller) : u.auth_id = q.caller}) IN
    /\ At(r, "wp_user")
    /\ Put(r,
            IF res.error THEN Respond(q, 500, Err("Failed to load user"))
            ELSE IF res.data = {}
            THEN Respond(q, 400, Err("Only workers can create worker profiles"))
            ELSE [q EXCEPT !.pc = "wp_profile", !.loc = [userId |-> TheRow(res.data).id]])
    /\ UNCHANGED store

\* users ... .maybeSingle(); 400 unless the user exists with role WORKER
WorkerProfileLoadUser(r) ==
    LET q == req[r]
        res == MaybeSingle({u \in UsersOf(q.caller) : u.auth_id = q.caller}) IN
    /\ At(r, "wp_user")
    /\ Put(r,
            IF res.error THEN Respond(q, 500, Err("Failed to load user"))
            ELSE IF res.data = {} \/ TheRow(res.data).role # "WORKER"
            THEN Respond(q, 400, Err("Only workers can create worker profiles"))
            ELSE [q EXCEPT !.pc = "wp_profile", !.loc = [userId |-> TheRow(res.data).id]])
    /\ UNCHANGED store

\* const { data: existingWorkerProfile } = worker_profiles ... .maybeSingle()
WorkerProfileLoadProfile(r) ==
    LET q == req[r]
        res == MaybeSingle({w \in WorkerProfilesOf(q.caller) : w.user_id = q.loc.userId}) IN
    /\ At(r, "wp_profile")
    /\ Put(r,
            [q EXCEPT !.pc = IF res.data # {} THEN "wp_update" ELSE "wp_insert"])
    /\ UNCHANGED store

\* a write that leaves the charges as they are
WorkerProfileValues_KeepCharges(body, old) ==
    [old EXCEPT !.worker_type = body.workerType, !.experience_yrs = ExperienceYrs(body)]

\* the columns both branches write
WorkerProfileValues(body, old) ==
    [old EXCEPT !.worker_type = body.workerType, !.experience_yrs = ExperienceYrs(body),
                !.charges = body.charges]

\* update({ worker_type, ... }).eq('user_id', userId).select('*').single()
WorkerProfileUpdate(r) ==
    LET q == req[r]
        rows == {w \in WorkerProfilesOf(q.caller) : w.user_id = q.loc.userId}
        new == {WorkerProfileValues(q.body, w) : w \in rows} IN
    /\ At(r, "wp_update")
    /\ IF Cardinality(rows) # 1
       THEN /\ Put(r, Respond(q, 500, Err("Failed to save worker profile")))
            /\ UNCHANGED store
       ELSE /\ worker_profiles' = (worker_profiles \ rows) \cup new
            /\ Put(r, Respond(q, 200, [data |-> new]))
            /\ UNCHANGED <<users, profiles, service_posts, requirements, nextId>>

\* insert({ user_id, worker_type, ... }).select('*').single()
WorkerProfileInsert(r) ==
    LET q == req[r]
        err == WorkerProfilesInsertError(q.loc.userId)
        row == WorkerProfileValues(q.body,
                  [id |-> NewId("worker_profiles"), user_id |-> q.loc.userId,
                   worker_type |-> NULL, experience_yrs |-> 0, charges |-> 0]) IN
    /\ At(r, "wp_insert")
    /\ IF err # NoError
       THEN /\ Put(r, Respond(q, 500, Err("Failed to save worker profile")))
            /\ UNCHANGED store
       ELSE /\ HasId("worker_profiles")
            /\ worker_profiles' = worker_profiles \cup {row}
            /\ TakeId("worker_profiles")
            /\ Put(r, Respond(q, 200, [data |-> {row}]))
            /\ UNCHANGED <<users, profiles, service_posts, requirements>>

-----------------------------------------------------------------------------
(* Service posts *)

RECURSIVE NewestFirst(_)
\* .order('created_at', { ascending: false }): ids are handed out in creation order
NewestFirst(S) ==
    IF S = {} THEN <<>>
    ELSE LET x == CHOOSE y \in S : \A z \in S : z.id <= y.id IN
         <<x>> \o NewestFirst(S \ {x})

ListServices_NoFilter == NewestFirst(service_posts_view)

\* a list of the posts of those who are WORKER now
ListServices_WorkersOnly ==
    NewestFirst({v \in service_posts_view : v.is_active = TRUE /\ v.role = "WORKER"})

\* service_posts_view ... .eq('is_active', true).order('created_at', desc)
ListServices == NewestFirst({v \in service_posts_view : v.is_active = TRUE})

\* GET /services
GetServices(r) ==
    /\ At(r, "gs_list")
    /\ Put(r, Respond(req[r], 200, [services |-> ListServices]))
    /\ UNCHANGED store

\* the gate without the role test
PostServiceLoadUser_AnyRole(r) ==
    LET q == req[r]
        res == MaybeSingle({u \in UsersOf(q.caller) : u.auth_id = q.caller}) IN
    /\ At(r, "ps_user")
    /\ Put(r,
            IF res.data = {}
            THEN Respond(q, 403, Err("Only workers can post services"))
            ELSE [q EXCEPT !.pc = "ps_worker", !.loc = [userId |-> TheRow(res.data).id]])
    /\ UNCHANGED store

\* POST /services: users ... .maybeSingle(); 403 unless the user is a WORKER
PostServiceLoadUser(r) ==
    LET q == req[r]
        res == MaybeSingle({u \in UsersOf(q.caller) : u.auth_id = q.caller}) IN
    /\ At(r, "ps_user")
    /\ Put(r,
            IF res.data = {} \/ TheRow(res.data).role # "WORKER"
            THEN Respond(q, 403, Err("Only workers can post services"))
            ELSE [q EXCEPT !.pc = "ps_worker", !.loc = [userId |-> TheRow(res.data).id]])
    /\ UNCHANGED store

\* worker_profiles ... .eq('user_id', user.id).maybeSingle(); 400 without one
PostServiceLoadWorker(r) ==
    LET q == req[r]
        res == MaybeSingle({w \in WorkerProfilesOf(q.caller) : w.user_id = q.loc.userId}) IN
    /\ At(r, "ps_worker")
    /\ Put(r,
            IF res.data = {}
            THEN Respond(q, 400, Err("Please complete your worker profile first"))
            ELSE [q EXCEPT !.pc = "ps_insert", !.loc = [workerId |-> TheRow(res.data).id]])
    /\ UNCHANGED store

\* service_posts.insert({ worker_id: workerProfile.id, ... }); is_active defaults to true
PostServiceInsert(r) ==
    LET q == req[r]
        row == [id |-> NewId("service_posts"), worker_id |-> q.loc.workerId, is_active |-> TRUE] IN
    /\ At(r, "ps_insert")
    /\ IF row.worker_id \notin OwnWorkerIds(q.caller)
       THEN /\ Put(r, Respond(q, 500, Err("Failed to create service post")))
            /\ UNCHANGED store
       ELSE /\ HasId("service_posts")
            /\ service_posts' = service_posts \cup {row}
            /\ TakeId("service_posts")
            /\ Put(r, Respond(q, 200, [data |-> {row}]))
            /\ UNCHANGED <<users, profiles, worker_profiles, requirements>>

\* the rows of the view a handler's ownership lookup matches: .eq('id', k) for
\* every k of keys (no key, no row) and .eq('auth_id', authId)
OwnedService_IdOnly(keys, authId) ==
    {v \in service_posts_view : v.id \in keys}

OwnedService(keys, authId) ==
    {v \in service_posts_view : v.id \in keys /\ v.auth_id = authId}

\* PATCH /services/:id/toggle: const serviceId = req.params.id; lookup; 404
ToggleLookup(r) ==
    LET q == req[r]
        res == MaybeSingle(OwnedService({q.id}, q.caller)) IN
    /\ At(r, "tg_lookup")
    /\ Put(r,
            IF res.data = {}
            THEN Respond(q, 404, Err("Service not found or not owned by you"))
            ELSE [q EXCEPT !.pc = "tg_update", !.loc = [is_active |-> TheRow(res.data).is_active]])
    /\ UNCHANGED store

\* update({ is_active: !service.is_active }).eq('id', serviceId).select('*').single()
ToggleUpdate(r) ==
    LET q == req[r]
        rows == {p \in ServicePostsOf(q.caller) : p.id = q.id}
        new == {[p EXCEPT !.is_active = ~q.loc.is_active] : p \in rows} IN
    /\ At(r, "tg_update")
    /\ IF Cardinality(rows) # 1
       THEN /\ Put(r, Respond(q, 500, Err("Failed to update service")))
            /\ UNCHANGED store
       ELSE /\ service_posts' = (service_posts \ rows) \cup new
            /\ Put(r, Respond(q, 200, [data |-> new]))
            /\ UNCHANGED <<users, profiles, worker_profiles, requirements, nextId>>

\* req.params of a route whose path is /services/:id
Params(q) == [id |-> q.id]

\* const { serviceId } = req.params: the values bound to serviceId, none when
\* the route has no such parameter (undefined matches no row)
DeleteServiceKey(params) ==
    IF "serviceId" \in DOMAIN params THEN {params["serviceId"]} ELSE {}

\* DELETE /services/:id: lookup with .single() (404 on error or no row), then
\* service_posts.delete().eq('id', serviceId)
DeleteService(r) ==
    LET q == req[r]
        keys == DeleteServiceKey(Params(q))
        res == Single(OwnedService(keys, q.caller))
        rows == {p \in ServicePostsOf(q.caller) : p.id \in keys} IN
    /\ req[r].pc \in {"ds_lookup", "ds_delete"}
    /\ IF At(r, "ds_lookup")
       THEN /\ Put(r,
                    IF res.error \/ res.data = {}
                    THEN Respond(q, 404, Err("Service not found or not owned by you"))
                    ELSE [q EXCEPT !.pc = "ds_delete"])
            /\ UNCHANGED store
       ELSE /\ service_posts' = service_posts \ rows
            /\ Put(r, Respond(q, 200, [success |-> TRUE]))
            /\ UNCHANGED <<users, profiles, worker_profiles, requirements, nextId>>

-----------------------------------------------------------------------------
(* Requirements *)

ListRequirements_NoFilter == NewestFirst(requirements_view)

\* requirements_view ... .eq('is_open', true).order('created_at', desc)
ListRequirements == NewestFirst({v \in requirements_view : v.is_open = TRUE})

\* GET /requirements
GetRequirements(r) ==
    /\ At(r, "gr_list")
    /\ Put(r, Respond(req[r], 200, [requirements |-> ListRequirements]))
    /\ UNCHANGED store

\* the gate written `user && user.role !== 'RESIDENT'`
PostRequirementLoadUser_NoUserPasses(r) ==
    LET q == req[r]
        res == MaybeSingle({u \in UsersOf(q.caller) : u.auth_id = q.caller}) IN
    /\ At(r, "pr_user")
    /\ Put(r,
            IF res.data # {} /\ TheRow(res.data).role # "RESIDENT"
            THEN Respond(q, 403, Err("Only residents can post requirements"))
            ELSE [q EXCEPT !.pc = "pr_insert",
                           !.loc = [userId |-> IF res.data = {} THEN 0 ELSE TheRow(res.data).id]])
    /\ UNCHANGED store

\* POST /requirements: users ... .maybeSingle(); 403 unless the user is a RESIDENT
PostRequirementLoadUser(r) ==
    LET q == req[r]
        res == MaybeSingle({u \in UsersOf(q.caller) : u.auth_id = q.caller}) IN
    /\ At(r, "pr_user")
    /\ Put(r,
            IF res.data = {} \/ TheRow(res.data).role # "RESIDENT"
            THEN Respond(q, 403, Err("Only residents can post requirements"))
            ELSE [q EXCEPT !.pc = "pr_insert", !.loc = [userId |-> TheRow(res.data).id]])
    /\ UNCHANGED store

\* a table whose requirements start closed
IsOpenDefault_Closed == FALSE

\* requirements.is_open boolean not null default true
IsOpenDefault == TRUE

\* requirements.insert({ owner_id: user.id, ..., urgency }); is_open defaults to true
PostRequirementInsert(r) ==
    LET q == req[r]
        row == [id |-> NewId("requirements"), owner_id |-> q.loc.userId,
                need_type |-> q.body.needType,
                urgency |-> RequirementPostBody(q.body).urgency, is_open |-> IsOpenDefault] IN
    /\ At(r, "pr_insert")
    /\ IF row.owner_id \notin OwnUserIds(q.caller)
       THEN /\ Put(r, Respond(q, 500, Err("Failed to create requirement")))
            /\ UNCHANGED store
       ELSE /\ HasId("requirements")
            /\ requirements' = requirements \cup {row}
            /\ TakeId("requirements")
            /\ Put(r, Respond(q, 200, [data |-> {row}]))
            /\ UNCHANGED <<users, profiles, worker_profiles, service_posts>>

\* DELETE /requirements/:id: users ... .eq('auth_id', authId).single(); 404 without a user
DeleteRequirementLoadUser(r) ==
    LET q == req[r]
        res == Single({u \in UsersOf(q.caller) : u.auth_id = q.caller}) IN
    /\ At(r, "dr_user")
    /\ Put(r,
            IF res.data = {} THEN Respond(q, 404, Err("User not found"))
            ELSE [q EXCEPT !.pc = "dr_lookup", !.loc = [userId |-> TheRow(res.data).id]])
    /\ UNCHANGED store

OwnedRequirement_IdOnly(id, userId) == {x \in requirements : x.id = id}

\* requirements ... .eq('id', requirementId).eq('owner_id', user.id)
OwnedRequirement(id, userId) == {x \in requirements : x.id = id /\ x.owner_id = userId}

\* const { data: requirement, error: fetchError } = ... .single(); 404 on either
DeleteRequirementLookup(r) ==
    LET q == req[r]
        res == Single(OwnedRequirement(q.id, q.loc.userId)) IN
    /\ At(r, "dr_lookup")
    /\ Put(r,
            IF res.error \/ res.data = {}
            THEN Respond(q, 404, Err("Requirement not found or not owned by you"))
            ELSE [q EXCEPT !.pc = "dr_delete"])
    /\ UNCHANGED store

\* requirements.delete().eq('id', requirementId)
DeleteRequirementDelete(r) ==
    LET q == req[r]
        rows == {x \in RequirementsOf(q.caller) : x.id = q.id} IN
    /\ At(r, "dr_delete")
    /\ requirements' = requirements \ rows
    /\ Put(r, Respond(q, 200, [success |-> TRUE]))
    /\ UNCHANGED <<users, profiles, worker_profiles, service_posts, nextId>>

-----------------------------------------------------------------------------
(* Translation: the steps at which an external call ends *)

\* POST /translate: await model.generateContent(prompt) ends; res.json(...)
TranslateCall(r) ==
    LET q == req[r] IN
    /\ At(r, "tr_call")
    /\ \E o \in Outcomes(q.body.text, q.body.toLanguage) :
            Put(r, RespondWith([q EXCEPT !.loc = [call |-> o]], 200,
                    [originalText |-> q.body.text, translatedText |-> Translated(q.body.text, o),
                     languages |-> Translation(q.body)]))
    /\ UNCHANGED store

\* POST /translate-batch: the call of text k ends.  When it is the last of its
\* chunk, Promise.all hands over the results in the order of the chunk, they
\* are appended and the loop goes on with the next chunk.
TranslateBatchCall(r, k) ==
    LET q == req[r]
        texts == q.body.texts IN
    /\ At(r, "tb_chunk")
    /\ k \in DOMAIN texts
    /\ q.loc.calls[k] = Pending
    /\ \E o \in Outcomes(texts[k], q.body.toLanguage) :
            LET calls == [q.loc.calls EXCEPT ![k] = o] IN
            Put(r,
                IF \E j \in DOMAIN texts : calls[j] = Pending
                THEN [q EXCEPT !.loc.calls = calls]
                ELSE BatchTurn(q, q.loc.i + batchSize,
                               q.loc.results \o BatchResults(texts, q.loc.i, calls), calls))
    /\ UNCHANGED store

\* POST /detect-language: await model.generateContent(prompt) ends; res.json(...)
DetectLanguageCall(r) ==
    LET q == req[r] IN
    /\ At(r, "dl_call")
    /\ \E reply \in Replies :
            Put(r, RespondWith([q EXCEPT !.loc = [call |-> reply]], 200,
                    [text |-> q.body.text, detectedLanguage |-> Detected(reply)]))
    /\ UNCHANGED store

-----------------------------------------------------------------------------
(* The caller's own rows *)

\* GET /me: users_view ... .eq('auth_id', authId).maybeSingle(); res.json(user)
GetMe(r) ==
    LET q == req[r]
        res == MaybeSingle({v \in users_view : v.auth_id = q.caller}) IN
    /\ At(r, "me_load")
    /\ Put(r, Respond(q, 200, [user |-> res.data]))
    /\ UNCHANGED store

\* GET /my-services: service_posts_view ... .eq('auth_id', authId).order(...)
GetMyServices(r) ==
    LET q == req[r] IN
    /\ At(r, "ms_list")
    /\ Put(r,
            Respond(q, 200,
                [services |-> NewestFirst({v \in service_posts_view : v.auth_id = q.caller})]))
    /\ UNCHANGED store

\* GET /worker-profile: users ... .maybeSingle(); 404 unless the user is a WORKER
GetWorkerProfileLoadUser(r) ==
    LET q == req[r]
        res == MaybeSingle({u \in UsersOf(q.caller) : u.auth_id = q.caller}) IN
    /\ At(r, "gw_user")
    /\ Put(r,
            IF res.data = {} \/ TheRow(res.data).role # "WORKER"
            THEN Respond(q, 404, Err("Worker profile not found"))
            ELSE [q EXCEPT !.pc = "gw_profile", !.loc = [userId |-> TheRow(res.data).id]])
    /\ UNCHANGED store

\* worker_profiles ... .eq('user_id', user.id).maybeSingle(); 404 without a row
GetWorkerProfileLoad(r) ==
    LET q == req[r]
        res == MaybeSingle({w \in WorkerProfilesOf(q.caller) : w.user_id = q.loc.userId}) IN
    /\ At(r, "gw_profile")
    /\ Put(r,
            IF res.data = {} THEN Respond(q, 404, Err("Worker profile not found"))
            ELSE Respond(q, 200, [data |-> res.data]))
    /\ UNCHANGED store

-----------------------------------------------------------------------------
(* Verification *)

\* the client of every store call of both handlers: supabaseFromRequest(token),
\* which acts with the caller's rights; supabaseAdmin is not used by any route
StoreClient(q) == q.caller

\* users ... .select('id').eq('auth_id', authId).maybeSingle(); 404 without a row
AdminVerifyLoadUser(r) ==
    LET q == req[r]
        res == MaybeSingle({u \in UsersOf(StoreClient(q)) : u.auth_id = q.body.authId}) IN
    /\ At(r, "av_user")
    /\ Put(r,
            IF res.data = {} THEN Respond(q, 404, Err("User not found"))
            ELSE [q EXCEPT !.pc = "av_update", !.loc = [targetUserId |-> TheRow(res.data).id]])
    /\ UNCHANGED store

\* profiles ... .update({ verified }).eq('user_id', targetUserId).select('*').single()
AdminVerifyUpdate(r) ==
    LET q == req[r]
        rows == {p \in ProfilesOf(StoreClient(q)) : p.user_id = q.loc.targetUserId}
        new == {[p EXCEPT !.verified = Verified(q.body)] : p \in rows} IN
    /\ At(r, "av_update")
    /\ IF Cardinality(rows) # 1
       THEN /\ Put(r, Respond(q, 500, Err("Failed to update verification status")))
            /\ UNCHANGED store
       ELSE /\ profiles' = (profiles \ rows) \cup new
            /\ Put(r, Respond(q, 200, [success |-> TRUE, profile |-> new]))
            /\ UNCHANGED <<users, worker_profiles, service_posts, requirements, nextId>>

\* the test without the phone
HasBasicProfile_NameOnly(user) == Truthy(user.name)

\* const hasBasicProfile = user.name && user.phone
HasBasicProfile(user) == Truthy(user.name) /\ Truthy(user.phone)

\* the test that asks nobody for a worker profile
HasWorkerProfile_Nobody(user) == TRUE

\* user.role !== 'WORKER' ||
\*   (user.worker_type && user.charges && user.experience_yrs !== null)
HasWorkerProfile(user) ==
    \/ user.role # "WORKER"
    \/ /\ Truthy(user.worker_type)
       /\ user.charges \notin {{}, {0}}
       /\ user.experience_yrs # {}

\* users_view ... .eq('auth_id', authId).maybeSingle(); 404 without a user, 400
\* with what is missing when the user is not eligible
VerifyMeLoad(r) ==
    LET q == req[r]
        res == MaybeSingle({v \in users_view : v.auth_id = q.caller}) IN
    /\ At(r, "vm_load")
    /\ Put(r,
            IF res.data = {} THEN Respond(q, 404, Err("User not found"))
            ELSE LET user == TheRow(res.data) IN
                 IF ~HasBasicProfile(user) \/ ~HasWorkerProfile(user)
                 THEN Respond(q, 400,
                        [error |-> "Please complete your profile before requesting verification",
                         missing |-> [basicProfile |-> ~HasBasicProfile(user),
                                      workerProfile |-> user.role = "WORKER" /\ ~HasWorkerProfile(user)]])
                 ELSE [q EXCEPT !.pc = "vm_update", !.loc = [userId |-> user.id]])
    /\ UNCHANGED store

\* profiles ... .update({ verified: true }).eq('user_id', user.id).select('*').single()
VerifyMeUpdate(r) ==
    LET q == req[r]
        rows == {p \in ProfilesOf(StoreClient(q)) : p.user_id = q.loc.userId}
        new == {[p EXCEPT !.verified = TRUE] : p \in rows} IN
    /\ At(r, "vm_update")
    /\ IF Cardinality(rows) # 1
       THEN /\ Put(r, Respond(q, 500, Err("Failed to verify user")))
            /\ UNCHANGED store
       ELSE /\ profiles' = (profiles \ rows) \cup new
            /\ Put(r, Respond(q, 200, [success |-> TRUE, profile |-> new]))
            /\ UNCHANGED <<users, worker_profiles, service_posts, requirements, nextId>>

\* The store is also open to its clients: under requirements_modify (for all)
\* the owner may update a requirement of theirs directly, is_open included.
\* No route of app.ts does.
StoreSetOpen(uid, id, open) ==
    LET rows == {x \in RequirementsOf(uid) : x.id = id} IN
    /\ rows # {}
    /\ requirements' = (requirements \ rows) \cup {[x EXCEPT !.is_open = open] : x \in rows}
    /\ resp' = Idle
    /\ UNCHANGED <<users, profiles, worker_profiles, service_posts, nextId, req, proc>>

-----------------------------------------------------------------------------
(* Start-up of the process: index.ts imports app.ts, which imports           *)
(* translation.ts; the module bodies run innermost first, then index.ts     *)
(* binds the listener.                                                      *)

\* the environment variables the code reads
EnvVars ==
    {"SUPABASE_URL", "SUPABASE_SERVICE_ROLE_KEY", "SUPABASE_ANON_KEY", "GEMINI_API_KEY",
     "CLIENT_ORIGIN"}

\* a variable is unset (NULL), set to the empty string, or set to a value
EnvValues == {NULL, "", "set"}

\* a start-up check that leaves the translation credential out
requiredEnvVars_NoGemini == <<"SUPABASE_URL", "SUPABASE_SERVICE_ROLE_KEY", "SUPABASE_ANON_KEY">>

\* Object.entries(requiredEnvVars), in the order of the literal
requiredEnvVars ==
    <<"SUPABASE_URL", "SUPABASE_SERVICE_ROLE_KEY", "SUPABASE_ANON_KEY", "GEMINI_API_KEY">>

\* translation.ts: const GEMINI_API_KEY = process.env.GEMINI_API_KEY || '<literal key>'
GEMINI_API_KEY(env) == IF Truthy(env["GEMINI_API_KEY"]) THEN env["GEMINI_API_KEY"] ELSE "literal"

\* app.ts: the origins cors() allows: two literals and CLIENT_ORIGIN when set
Origins(env) ==
    {o \in {"http://localhost:3000", "https://cookmate-flame.vercel.app",
            IF Truthy(env["CLIENT_ORIGIN"]) THEN env["CLIENT_ORIGIN"] ELSE ""} : o # ""}

\* the body of translation.ts: if (!GEMINI_API_KEY) throw
ImportTranslation ==
    /\ proc.pc = "import"
    /\ proc' = [proc EXCEPT !.pc = IF Truthy(GEMINI_API_KEY(proc.env)) THEN "validate" ELSE "crashed"]
    /\ UNCHANGED <<store, req, resp>>

\* one turn of: for (const [key, value] of entries) if (!value) process.exit(1)
ValidateEnv ==
    /\ proc.pc = "validate"
    /\ proc' =
          IF proc.i > Len(requiredEnvVars) THEN [proc EXCEPT !.pc = "listen"]
          ELSE IF ~Truthy(proc.env[requiredEnvVars[proc.i]])
          THEN [proc EXCEPT !.pc = "exited", !.missing = requiredEnvVars[proc.i]]
          ELSE [proc EXCEPT !.i = @ + 1]
    /\ UNCHANGED <<store, req, resp>>

\* the rest of app.ts, then index.ts: app.listen(PORT, ...)
Listen ==
    /\ proc.pc = "listen"
    /\ proc' = [proc EXCEPT !.pc = "listening", !.origins = Origins(proc.env)]
    /\ UNCHANGED <<store, req, resp>>

\* the process node starts with environment env
Started(env) == [pc |-> "import", env |-> env, i |-> 1, missing |-> NULL, origins |-> {}]

-----------------------------------------------------------------------------
(* Specifications *)

EmptyStore ==
    /\ users = {}
    /\ profiles = {}
    /\ worker_profiles = {}
    /\ service_posts = {}
    /\ requirements = {}
    /\ nextId = [t \in Tables |-> 1]
    /\ req = [r \in Slots |-> Idle]
    /\ resp = Idle

\* the server listens, started with every variable set, and the store is empty
Init ==
    /\ EmptyStore
    /\ proc = [Started([v \in EnvVars |-> "set"])
                    EXCEPT !.pc = "listening", !.i = Len(requiredEnvVars) + 1,
                           !.origins = Origins([v \in EnvVars |-> "set"])]

(* Start-up: the process is started with any environment *)

InitStartup ==
    /\ EmptyStore
    /\ \E env \in [EnvVars -> EnvValues] : proc = Started(env)

NextStartup ==
    \/ ImportTranslation
    \/ ValidateEnv
    \/ Listen

SpecStartup == InitStartup /\ [][NextStartup]_vars

\* the texts of a list to be translated: each says another word, the second
\* one in quotes
Words ==
    [k \in 1..MaxTexts |->
        Text(<<"rice", "dal", "roti", "chai", "dosa", "idli", "vada", "puri">>[k], "en",
             IF k = 2 THEN "quoted" ELSE "plain")]

\* the request bodies the clients of workload w send; each kind of body has
\* one member that fails validation
Bodies(op, w) ==
    CASE op = "POST /select-role" -> [role : Roles \cup {"CHEF"}]
      [] op = "POST /profile" ->
            [name : w.names, phone : w.phones, block : w.blocks]
            \cup {[name |-> "", phone |-> "9000000001", block |-> NULL]}
      [] op = "POST /worker-profile" ->
            [workerType : w.workerTypes, experienceYrs : w.experiences, charges : w.charges]
            \cup {[workerType |-> "DRIVER", experienceYrs |-> {}, charges |-> 500]}
      [] op = "POST /services" -> [title : {"Meals", ""}]
      [] op = "POST /admin/verify-user" ->
            [userId : w.targetIds, authId : w.targetAuthIds, verified : w.flags]
      [] op = "POST /translate" ->
            [text : {Text("rice", "en", "plain"), Text("rice", "en", "quoted"), Text("", "en", "plain")},
             fromLanguage : w.languages, toLanguage : w.languages]
      [] op = "POST /translate-batch" ->
            [texts : {SubSeq(Words, 1, n) : n \in 0..MaxTexts} \cup {<<Text("", "en", "plain")>>},
             fromLanguage : w.languages, toLanguage : w.languages]
      [] op = "POST /detect-language" ->
            [text : {Text("rice", "en", "plain"), Text("chawal", "hi", "plain"),
                     Text("", "en", "plain")}]
      [] op = "POST /requirements" ->
            [needType : {"COOK"}, urgency : w.urgencies]
            \cup {[needType |-> "DRIVER", urgency |-> NULL]}
      [] OTHER -> {NoBody}

\* the :id of the path; ids beyond the rows inserted so far name no row
PathIds(op) ==
    IF op \in {"PATCH /services/:id/toggle", "DELETE /services/:id", "DELETE /requirements/:id"}
    THEN 1..MaxRows
    ELSE {0}

\* a client sends any request of workload w: one of its routes, with one of its tokens
Client(r, w) ==
    \E op \in w.ops, token \in w.tokens :
        \E thrown \in w.thrown, body \in Bodies(op, w), id \in PathIds(op) :
            Receive(r, op, token, thrown, body, id)

\* the routes and tokens of a workload; its bodies take one value per field
\* unless the workload widens a field
Workload(ops, tokens) ==
    [ops |-> ops, tokens |-> tokens, thrown |-> {FALSE}, names |-> {"Asha"}, phones |-> {"9000000001"},
     blocks |-> {NULL}, workerTypes |-> {"COOK"}, experiences |-> {{}}, charges |-> {500},
     urgencies |-> {NULL}, targetIds |-> {{}}, targetAuthIds |-> {NULL}, flags |-> {{}},
     languages |-> {"en", "hi", "xx"}]

SelectRoleSteps(r) ==
    \/ SelectRoleLoadUser(r)
    \/ SelectRoleInsert(r)
    \/ SelectRoleUpdate(r)

AuthSyncSteps(r) ==
    \/ AuthSyncLoad(r)
    \/ AuthSyncInsert(r)
    \/ AuthSyncRefetch(r)

ProfileSteps(r) ==
    \/ ProfileLoadUser(r)
    \/ ProfileLoadProfile(r)
    \/ ProfileUpdate(r)
    \/ ProfileInsert(r)

WorkerProfileSteps(r) ==
    \/ WorkerProfileLoadUser(r)
    \/ WorkerProfileLoadProfile(r)
    \/ WorkerProfileUpdate(r)
    \/ WorkerProfileInsert(r)

PostServiceSteps(r) ==
    \/ PostServiceLoadUser(r)
    \/ PostServiceLoadWorker(r)
    \/ PostServiceInsert(r)

ToggleSteps(r) ==
    \/ ToggleLookup(r)
    \/ ToggleUpdate(r)

PostRequirementSteps(r) ==
    \/ PostRequirementLoadUser(r)
    \/ PostRequirementInsert(r)

AdminVerifySteps(r) ==
    \/ AdminVerifyLoadUser(r)
    \/ AdminVerifyUpdate(r)

VerifyMeSteps(r) ==
    \/ VerifyMeLoad(r)
    \/ VerifyMeUpdate(r)

GetWorkerProfileSteps(r) ==
    \/ GetWorkerProfileLoadUser(r)
    \/ GetWorkerProfileLoad(r)

DeleteRequirementSteps(r) ==
    \/ DeleteRequirementLoadUser(r)
    \/ DeleteRequirementLookup(r)
    \/ DeleteRequirementDelete(r)

(* Accounts: role selection and auth sync, by every kind of token *)

UsersWorkload == Workload({"POST /select-role", "POST /auth/sync"}, Tokens)

NextUsers ==
    \E r \in In(MaxOverlap) :
        \/ Client(r, UsersWorkload)
        \/ SelectRoleSteps(r)
        \/ AuthSyncSteps(r)

Spec == Init /\ [][NextUsers]_vars

\* the tokens of the two accounts
Accounts == {"tokA", "tokB"}

(* Profiles: role selection and profile upserts, with every name and phone *)

ProfileWorkload ==
    [Workload({"POST /select-role", "POST /profile"}, Accounts)
        EXCEPT !.names = Names, !.phones = Phones]

NextProfile ==
    \E r \in In(MaxSlots) :
        \/ Client(r, ProfileWorkload)
        \/ SelectRoleSteps(r)
        \/ ProfileSteps(r)

SpecProfile == Init /\ [][NextProfile]_vars

(* Overlapping profile upserts of the two accounts *)

ProfileOverlapWorkload ==
    [Workload({"POST /select-role", "POST /profile"}, Accounts) EXCEPT !.phones = Phones]

NextProfileOverlap ==
    \E r \in In(MaxOverlap) :
        \/ Client(r, ProfileOverlapWorkload)
        \/ SelectRoleSteps(r)
        \/ ProfileSteps(r)

SpecProfileOverlap == Init /\ [][NextProfileOverlap]_vars

(* Self-verification: one account fills in its profiles, in any order and  *)
(* with every phone and charge, takes its own verification back and asks   *)
(* for it again                                                            *)

VerifyWorkload ==
    [Workload({"POST /select-role", "POST /profile", "POST /worker-profile",
               "POST /admin/verify-user", "POST /verify-me"}, {"tokA", "tokB"})
        EXCEPT !.phones = {"9000000001", BlankPhone}, !.charges = Charges,
               !.targetIds = {{1}}, !.flags = {{FALSE}}]

NextVerify ==
    \E r \in In(MaxSlots) :
        \/ Client(r, VerifyWorkload)
        \/ SelectRoleSteps(r)
        \/ ProfileSteps(r)
        \/ WorkerProfileSteps(r)
        \/ AdminVerifyUpdate(r)
        \/ VerifyMeSteps(r)

SpecVerify == Init /\ [][NextVerify]_vars

(* Administration: either account, once it has a Profile or not, sets the   *)
(* verified flag of a target named by user id or by identity                *)

AdminWorkload ==
    [Workload({"POST /select-role", "POST /profile", "POST /admin/verify-user"}, Accounts)
        EXCEPT !.phones = {"9000000001", "9000000002"},
               !.targetIds = {{}} \cup {{id} : id \in 1..MaxRows},
               !.targetAuthIds = {NULL, "not-a-uuid"} \cup Identities,
               !.flags = {{}, {FALSE}}]

NextAdmin ==
    \E r \in In(MaxSlots) :
        \/ Client(r, AdminWorkload)
        \/ SelectRoleSteps(r)
        \/ ProfileSteps(r)
        \/ AdminVerifySteps(r)

SpecAdmin == Init /\ [][NextAdmin]_vars

(* Authentication: every route, by one account, by tokens the identity     *)
(* provider rejects, without a token, and while the provider fails          *)

AuthWorkload ==
    [Workload(Protected \cup {"GET /services", "GET /requirements"}, Tokens \ {"tokB"})
        EXCEPT !.thrown = BOOLEAN, !.targetIds = {{1}}]

NextAuth ==
    \E r \in In(MaxSlots) :
        \/ Client(r, AuthWorkload)
        \/ SelectRoleSteps(r)
        \/ ProfileSteps(r)
        \/ GetMe(r)
        \/ AuthSyncSteps(r)
        \/ GetServices(r)
        \/ PostServiceSteps(r)
        \/ GetMyServices(r)
        \/ ToggleSteps(r)
        \/ DeleteService(r)
        \/ DeleteRequirementSteps(r)
        \/ GetRequirements(r)
        \/ PostRequirementSteps(r)
        \/ WorkerProfileSteps(r)
        \/ GetWorkerProfileSteps(r)
        \/ AdminVerifyUpdate(r)
        \/ VerifyMeSteps(r)

SpecAuth == Init /\ [][NextAuth]_vars

(* Translation: one request at a time, since the translation routes keep   *)
(* no state and share none                                                 *)

TranslateWorkload ==
    Workload({"POST /translate", "POST /translate-batch", "POST /detect-language"}, {""})

NextTranslate ==
    \E r \in In(1) :
        \/ Client(r, TranslateWorkload)
        \/ TranslateCall(r)
        \/ DetectLanguageCall(r)
        \/ \E k \in 1..MaxTexts : TranslateBatchCall(r, k)

SpecTranslate == Init /\ [][NextTranslate]_vars

\* every external call that was issued returns or fails in the end
SpecTranslateFair ==
    /\ SpecTranslate
    /\ \A r \in In(1) :
          /\ WF_vars(TranslateCall(r))
          /\ WF_vars(DetectLanguageCall(r))
          /\ \A k \in 1..MaxTexts : WF_vars(TranslateBatchCall(r, k))

(* Service posts: role selection, worker profiles and the service routes *)

ServicesWorkload ==
    Workload({"POST /select-role", "POST /worker-profile", "GET /services", "POST /services",
              "PATCH /services/:id/toggle", "DELETE /services/:id"}, Accounts)

NextServices ==
    \E r \in In(MaxSlots) :
        \/ Client(r, ServicesWorkload)
        \/ SelectRoleSteps(r)
        \/ WorkerProfileSteps(r)
        \/ GetServices(r)
        \/ PostServiceSteps(r)
        \/ ToggleSteps(r)
        \/ DeleteService(r)

SpecServices == Init /\ [][NextServices]_vars

(* Requirements: role selection and the requirement routes *)

RequirementsWorkload ==
    [Workload({"POST /select-role", "GET /requirements", "POST /requirements",
               "DELETE /requirements/:id"}, Accounts)
        EXCEPT !.urgencies = {NULL, "HIGH"}]

NextRequirements ==
    \E r \in In(MaxSlots) :
        \/ Client(r, RequirementsWorkload)
        \/ SelectRoleSteps(r)
        \/ GetRequirements(r)
        \/ PostRequirementSteps(r)
        \/ DeleteRequirementSteps(r)

SpecRequirements == Init /\ [][NextRequirements]_vars

(* Worker profiles: role selection and worker profile upserts, every worker type *)

WorkerWorkload ==
    [Workload({"POST /select-role", "POST /worker-profile"}, Accounts)
        EXCEPT !.workerTypes = WorkerTypes]

NextWorker ==
    \E r \in In(MaxSlots) :
        \/ Client(r, WorkerWorkload)
        \/ SelectRoleSteps(r)
        \/ WorkerProfileSteps(r)

SpecWorker == Init /\ [][NextWorker]_vars

(* Worker upserts: role selection, profiles and worker profiles with every *)
(* type, experience and charge                                             *)

WorkerUpsertWorkload ==
    [Workload({"POST /select-role", "POST /profile", "POST /worker-profile"}, Accounts)
        EXCEPT !.workerTypes = WorkerTypes, !.experiences = Experiences, !.charges = Charges]

NextWorkerUpsert ==
    \E r \in In(MaxSlots) :
        \/ Client(r, WorkerUpsertWorkload)
        \/ SelectRoleSteps(r)
        \/ ProfileSteps(r)
        \/ WorkerProfileSteps(r)

SpecWorkerUpsert == Init /\ [][NextWorkerUpsert]_vars

(* Overlapping worker upserts: the same routes without profiles, several  *)
(* requests in progress                                                    *)

WorkerOverlapWorkload ==
    [Workload({"POST /select-role", "POST /worker-profile"}, Accounts)
        EXCEPT !.workerTypes = WorkerTypes]

NextWorkerOverlap ==
    \E r \in In(MaxOverlap) :
        \/ Client(r, WorkerOverlapWorkload)
        \/ SelectRoleSteps(r)
        \/ WorkerProfileSteps(r)

SpecWorkerOverlap == Init /\ [][NextWorkerOverlap]_vars

(* Re-selection: role selection next to every route that creates rows for *)
(* a user, and the list of services                                        *)

ReselectWorkload ==
    Workload({"POST /select-role", "POST /profile", "POST /worker-profile", "POST /services",
              "GET /services", "POST /requirements"}, Accounts)

NextReselect ==
    \E r \in In(MaxSlots) :
        \/ Client(r, ReselectWorkload)
        \/ SelectRoleSteps(r)
        \/ ProfileSteps(r)
        \/ WorkerProfileSteps(r)
        \/ PostServiceSteps(r)
        \/ GetServices(r)
        \/ PostRequirementSteps(r)

SpecReselect == Init /\ [][NextReselect]_vars

(* Overlapping toggles: one worker's posts, several requests in progress *)

ToggleOverlapWorkload ==
    Workload({"POST /select-role", "POST /worker-profile", "POST /services",
              "PATCH /services/:id/toggle"}, {"tokA"})

NextToggleOverlap ==
    \E r \in In(MaxOverlap) :
        \/ Client(r, ToggleOverlapWorkload)
        \/ SelectRoleSteps(r)
        \/ WorkerProfileSteps(r)
        \/ PostServiceSteps(r)
        \/ ToggleSteps(r)

SpecToggleOverlap == Init /\ [][NextToggleOverlap]_vars

(* Overlapping gates: one user's role selection next to the gated routes, *)
(* several requests in progress                                            *)

GatesOverlapWorkload ==
    Workload({"POST /select-role", "POST /worker-profile", "POST /services",
              "POST /requirements"}, {"tokA"})

NextGatesOverlap ==
    \E r \in In(MaxOverlap) :
        \/ Client(r, GatesOverlapWorkload)
        \/ SelectRoleSteps(r)
        \/ WorkerProfileSteps(r)
        \/ PostServiceSteps(r)
        \/ PostRequirementSteps(r)

SpecGatesOverlap == Init /\ [][NextGatesOverlap]_vars

(* Replacement: profiles with every name and block, the block left out or  *)
(* empty as well, next to the administrative withdrawal of verification    *)

ReplaceWorkload ==
    [Workload({"POST /select-role", "POST /profile", "POST /admin/verify-user"}, Accounts)
        EXCEPT !.names = Names, !.blocks = Blocks \cup {""},
               !.targetIds = {{id} : id \in 1..MaxRows}, !.flags = {{FALSE}}]

NextReplace ==
    \E r \in In(MaxSlots) :
        \/ Client(r, ReplaceWorkload)
        \/ SelectRoleSteps(r)
        \/ ProfileSteps(r)
        \/ AdminVerifyUpdate(r)

SpecReplace == Init /\ [][NextReplace]_vars

(* Gates: role selection and the four routes that create rows for a user *)

GatesWorkload ==
    Workload({"POST /select-role", "POST /profile", "POST /worker-profile", "POST /services",
              "POST /requirements"}, Accounts)

NextGates ==
    \E r \in In(MaxSlots) :
        \/ Client(r, GatesWorkload)
        \/ SelectRoleSteps(r)
        \/ ProfileSteps(r)
        \/ WorkerProfileSteps(r)
        \/ PostServiceSteps(r)
        \/ PostRequirementSteps(r)

SpecGates == Init /\ [][NextGates]_vars

(* Listings: what the two public lists show while one account, worker and  *)
(* resident in turn, posts, toggles its posts and closes its requirements  *)
(* in the store                                                            *)

ListsWorkload ==
    Workload({"POST /select-role", "POST /worker-profile", "POST /services",
              "PATCH /services/:id/toggle", "GET /services", "POST /requirements",
              "GET /requirements"}, {"tokA"})

NextLists ==
    \/ \E r \in In(MaxSlots) :
        \/ Client(r, ListsWorkload)
        \/ SelectRoleSteps(r)
        \/ WorkerProfileSteps(r)
        \/ PostServiceSteps(r)
        \/ ToggleSteps(r)
        \/ GetServices(r)
        \/ PostRequirementSteps(r)
        \/ GetRequirements(r)
    \/ \E uid \in Identities, id \in 1..MaxRows, open \in BOOLEAN : StoreSetOpen(uid, id, open)

SpecLists == Init /\ [][NextLists]_vars

-----------------------------------------------------------------------------
(* Properties *)

\* the request whose response this step sent: the slot r that was busy and is
\* free again
Answers(r) == req[r].pc # "idle" /\ req'[r].pc = "idle" /\ resp'.pc = "done"

UsersOfIdentity(i) == {u \in users : u.auth_id = i}

\* the effect of a POST /select-role that answers 200
SelectRoleEffect(r) ==
    LET c == req[r].caller
        before == UsersOfIdentity(c)
        after == {u \in users' : u.auth_id = c} IN
    /\ Cardinality(after) = 1
    /\ TheRow(after).role = req[r].body.role
    /\ resp'.out = [userId |-> TheRow(after).id, role |-> req[r].body.role]
    /\ {u \in users' : u.auth_id # c} = {u \in users : u.auth_id # c}
    /\ before = {} => Cardinality(users') = Cardinality(users) + 1
    /\ before # {} => Cardinality(before) = 1 /\ TheRow(after).id = TheRow(before).id

\* a User row is never removed and keeps its id and identity
UsersKeepIdentity == \A u \in users : \E v \in users' : v.id = u.id /\ v.auth_id = u.auth_id

\* C1: whatever requests to POST /select-role and POST /auth/sync overlap, an
\* identity never has more than one User row; a POST /select-role that
\* succeeds leaves exactly one User of the caller, with the chosen role,
\* created if the identity had none and otherwise the same row (same userId)
\* with only its role overwritten; no other User changes.
C1_OneUserPerIdentity ==
    /\ [](\A i \in Identities : Cardinality(UsersOfIdentity(i)) <= 1)
    /\ [][/\ UsersKeepIdentity
          /\ \A r \in Slots :
                Answers(r) /\ req[r].op = "POST /select-role" /\ resp'.status = 200
                    => SelectRoleEffect(r)]_vars

\* a role selection has succeeded for an identity while another first-time
\* selection of the same identity, which read "no user" earlier, is still
\* waiting to insert
C1_Witness ==
    /\ resp.op = "POST /select-role" /\ resp.status = 200
    /\ \E u \in users : u.id = resp.out.userId /\ u.auth_id = resp.caller
    /\ \E r \in Slots : req[r].pc = "sr_insert" /\ req[r].caller = resp.caller

ProfilesOfIdentity(i) == {p \in profiles : p.user_id \in {u.id : u \in UsersOfIdentity(i)}}

\* the effect of a POST /profile that answers 200
ProfileEffect(r) ==
    LET c == req[r].caller
        after == {p \in profiles' : p.user_id \in {u.id : u \in UsersOfIdentity(c)}} IN
    /\ Cardinality(after) = 1
    /\ TheRow(after).name = req[r].body.name
    /\ TheRow(after).phone = Trim(req[r].body.phone)
    /\ TheRow(after).verified = TRUE
    /\ resp'.out = [data |-> after]
    /\ profiles' \ after = profiles \ ProfilesOfIdentity(c)
    /\ ProfilesOfIdentity(c) # {} => TheRow(after).id = TheRow(ProfilesOfIdentity(c)).id

\* C2: POST /profile is an upsert keyed by owner: no user ever has two Profile
\* rows, and each POST /profile that succeeds leaves exactly one Profile of
\* the caller (the row it had, if any), holding the name of this call and
\* verified = true, and leaves every other Profile alone.
C2_ProfileUpsert ==
    /\ [](\A u \in users : Cardinality({p \in profiles : p.user_id = u.id}) <= 1)
    /\ [][\A r \in Slots :
            Answers(r) /\ req[r].op = "POST /profile" /\ resp'.status = 200
                => ProfileEffect(r)]_vars

\* a second upsert, with another name, is about to update the caller's Profile
C2_Witness ==
    \E r \in Slots :
        /\ req[r].pc = "pf_update"
        /\ \E p \in ProfilesOfIdentity(req[r].caller) :
                p.name # req[r].body.name /\ p.verified = TRUE

\* the step just taken is a store call of the request in slot r, waiting at pc
StepAt(r, pc) == req[r].pc = pc /\ req'[r] # req[r]

Rejected(r, status) == Answers(r) /\ resp'.status = status /\ UNCHANGED store

WorkerProfilesOfIdentity(i) ==
    {w \in worker_profiles : w.user_id \in {u.id : u \in UsersOfIdentity(i)}}

IsWorker(i) == \E u \in UsersOfIdentity(i) : u.role = "WORKER"

\* C3: POST /services answers 403 and writes nothing when the caller has no
\* User with role WORKER, answers 400 and writes nothing when the caller is a
\* WORKER without a WorkerProfile, and otherwise goes on to insert exactly one
\* ServicePost, which references the caller's own WorkerProfile, and answers 200.
C3_PostServiceGates ==
    [][\A r \in Slots :
        /\ StepAt(r, "ps_user") =>
              IF IsWorker(req[r].caller) THEN req'[r].pc = "ps_worker" ELSE Rejected(r, 403)
        /\ StepAt(r, "ps_worker") =>
              IF WorkerProfilesOfIdentity(req[r].caller) = {}
              THEN Rejected(r, 400)
              ELSE req'[r].pc = "ps_insert"
        /\ StepAt(r, "ps_insert") =>
              /\ Answers(r) /\ resp'.status = 200
              /\ \E row \in service_posts' \ service_posts :
                    /\ service_posts' = service_posts \cup {row}
                    /\ row.worker_id \in {w.id : w \in WorkerProfilesOfIdentity(req[r].caller)}
                    /\ resp'.out = [data |-> {row}]]_vars

\* a POST /services has just succeeded for a caller who owns the WorkerProfile
\* the new post references
C3_Witness ==
    /\ resp.op = "POST /services" /\ resp.status = 200
    /\ \E row \in service_posts :
          /\ resp.out = [data |-> {row}]
          /\ row.worker_id \in {w.id : w \in WorkerProfilesOfIdentity(resp.caller)}

OwnsPost(i, id) == \E v \in service_posts_view : v.id = id /\ v.auth_id = i

\* C4: PATCH /services/:id/toggle on a post the caller does not own answers
\* 404 with the same body whether the post exists or not, and changes no
\* post (so the post's active flag stays as it was).
C4_ToggleNotOwned ==
    [][\A r \in Slots :
        StepAt(r, "tg_lookup") /\ ~OwnsPost(req[r].caller, req[r].id) =>
            /\ Rejected(r, 404)
            /\ resp'.out = Err("Service not found or not owned by you")]_vars

\* a toggle of an existing post by somebody who is not its owner was answered 404
C4_Witness ==
    /\ resp.op = "PATCH /services/:id/toggle" /\ resp.status = 404
    /\ \E v \in service_posts_view : v.id = resp.id /\ v.auth_id # resp.caller

\* C5: DELETE /services/:id by the owner of the post passes the ownership
\* lookup and the post is gone from the store afterwards; for a post the
\* caller does not own, or no post, it answers 404 and deletes nothing.
C5_DeleteService ==
    [][\A r \in Slots :
        /\ StepAt(r, "ds_lookup") =>
              IF OwnsPost(req[r].caller, req[r].id)
              THEN req'[r].pc = "ds_delete"
              ELSE Rejected(r, 404)
        /\ StepAt(r, "ds_delete") =>
              /\ Answers(r) /\ resp'.status = 200
              /\ \A p \in service_posts' : p.id # req[r].id]_vars

OwnsRequirement(i, id) ==
    \E x \in requirements : x.id = id /\ x.owner_id \in {u.id : u \in UsersOfIdentity(i)}

\* the requirement with this id was inserted once and is no longer stored
Deleted(id) == id < nextId["requirements"] /\ \A x \in requirements : x.id # id

\* C6: DELETE /requirements/:id answers 404 and removes nothing when the
\* caller has no User row, and when the requirement does not exist or is not
\* the caller's; for the owner it removes the row and answers 200; a removed
\* requirement never comes back, so the owner's next call on the same id is
\* answered 404.
C6_DeleteRequirement ==
    [][/\ \A id \in 1..MaxRows : Deleted(id) => Deleted(id)'
       /\ \A r \in Slots :
            /\ StepAt(r, "dr_user") =>
                  IF UsersOfIdentity(req[r].caller) = {}
                  THEN Rejected(r, 404)
                  ELSE req'[r].pc = "dr_lookup"
            /\ StepAt(r, "dr_lookup") =>
                  IF OwnsRequirement(req[r].caller, req[r].id)
                  THEN req'[r].pc = "dr_delete"
                  ELSE Rejected(r, 404)
            /\ StepAt(r, "dr_delete") =>
                  /\ Answers(r) /\ resp'.status = 200
                  /\ requirements' = {x \in requirements : x.id # req[r].id}]_vars

\* the only user there is has deleted a requirement and asked to delete it
\* again: the second request was answered 404
C6_Witness ==
    /\ resp.op = "DELETE /requirements/:id" /\ resp.status = 404
    /\ Deleted(resp.id)
    /\ Cardinality(users) = 1 /\ UsersOfIdentity(resp.caller) # {}

IsResident(i) == \E u \in UsersOfIdentity(i) : u.role = "RESIDENT"

\* C10: POST /requirements answers 403 and writes nothing unless the caller's
\* User has role RESIDENT; for a RESIDENT it inserts one Requirement owned by
\* the caller's User, open, with the urgency sent or MEDIUM when none is sent.
C10_PostRequirement ==
    [][\A r \in Slots :
        /\ StepAt(r, "pr_user") =>
              IF IsResident(req[r].caller) THEN req'[r].pc = "pr_insert" ELSE Rejected(r, 403)
        /\ StepAt(r, "pr_insert") =>
              /\ Answers(r) /\ resp'.status = 200
              /\ \E row \in requirements' \ requirements :
                    /\ requirements' = requirements \cup {row}
                    /\ row.owner_id \in {u.id : u \in UsersOfIdentity(req[r].caller)}
                    /\ row.is_open = TRUE
                    /\ row.urgency = IF req[r].body.urgency = NULL THEN "MEDIUM"
                                     ELSE req[r].body.urgency
                    /\ resp'.out = [data |-> {row}]]_vars

\* a requirement sent without urgency has just been stored, open and MEDIUM,
\* for the caller's User
C10_Witness ==
    /\ resp.op = "POST /requirements" /\ resp.status = 200
    /\ \E row \in requirements :
          /\ resp.out = [data |-> {row}]
          /\ row.urgency = "MEDIUM" /\ row.is_open = TRUE
          /\ row.owner_id \in {u.id : u \in UsersOfIdentity(resp.caller)}

Range(f) == {f[k] : k \in DOMAIN f}

ActivePostIds == {p.id : p \in {x \in service_posts : x.is_active}}

OpenRequirementIds == {x.id : x \in {y \in requirements : y.is_open}}

\* C7: what GET /services returns holds only active posts, and every active
\* post; what GET /requirements returns holds only open requirements, and
\* every open one; so a post its owner toggles to inactive is no longer in
\* the list and is in it again once toggled back.
C7_ListsShowActiveAndOpen ==
    /\ [](/\ \A v \in Range(ListServices) : v.is_active = TRUE
          /\ {v.id : v \in Range(ListServices)} = ActivePostIds
          /\ \A v \in Range(ListRequirements) : v.is_open = TRUE
          /\ {v.id : v \in Range(ListRequirements)} = OpenRequirementIds)
    /\ [][\A r \in Slots :
            /\ StepAt(r, "gs_list") =>
                  Answers(r) /\ resp'.status = 200 /\ resp'.out = [services |-> ListServices]
            /\ StepAt(r, "gr_list") =>
                  Answers(r) /\ resp'.status = 200
                  /\ resp'.out = [requirements |-> ListRequirements]
            /\ StepAt(r, "tg_update") /\ resp'.status = 200 =>
                  \E p \in service_posts' :
                      /\ p.id = req[r].id
                      /\ p.is_active = ~req[r].loc.is_active
                      /\ p.is_active <=> p.id \in {v.id : v \in Range(ListServices')}]_vars

\* GET /services has just answered with a list that leaves out a stored post,
\* which is inactive, while a closed requirement is stored as well
C7_Witness ==
    /\ resp.op = "GET /services" /\ resp.status = 200
    /\ \E p \in service_posts :
          ~p.is_active /\ \A v \in Range(resp.out.services) : v.id # p.id
    /\ \E x \in requirements : ~x.is_open

GateOf(op) ==
    CASE op = "POST /profile" -> [pc |-> "pf_user", status |-> 400]
      [] op = "POST /worker-profile" -> [pc |-> "wp_user", status |-> 400]
      [] op = "POST /services" -> [pc |-> "ps_user", status |-> 403]
      [] op = "POST /requirements" -> [pc |-> "pr_user", status |-> 403]

GatedOps == {"POST /profile", "POST /worker-profile", "POST /services", "POST /requirements"}

\* C8: POST /profile, POST /worker-profile, POST /services and POST
\* /requirements touch the store only after their user lookup, and for a
\* caller without a User row that lookup ends the request with an error
\* (400, 400, 403, 403) and no row of any table created or changed.
C8_NoUserRejected ==
    [][\A r \in Slots :
        /\ req[r].pc = "idle" /\ req'[r].op \in GatedOps /\ req'[r].pc # "idle" =>
              req'[r].pc = GateOf(req'[r].op).pc /\ UNCHANGED store
        /\ \A op \in GatedOps :
              StepAt(r, GateOf(op).pc) /\ UsersOfIdentity(req[r].caller) = {} =>
                  /\ req[r].op = op
                  /\ Rejected(r, GateOf(op).status)
                  /\ "error" \in DOMAIN resp'.out]_vars

\* a caller without a User row has just been refused a requirement, while the
\* other account has a User row
C8_Witness ==
    /\ resp.op = "POST /requirements" /\ resp.status = 403
    /\ UsersOfIdentity(resp.caller) = {}
    /\ users # {} /\ requirements = {}

\* C9: only the two write steps of POST /worker-profile change the
\* worker_profiles table, and a request reaches them only if its user lookup
\* found the caller's User with role WORKER; for a RESIDENT (or no User) the
\* lookup ends the request with 400 and nothing is created or changed.
C9_WorkerProfileGate ==
    [][/\ worker_profiles' # worker_profiles =>
            \E r \in Slots : StepAt(r, "wp_insert") \/ StepAt(r, "wp_update")
       /\ \A r \in Slots :
            /\ StepAt(r, "wp_user") =>
                  IF IsWorker(req[r].caller) THEN req'[r].pc = "wp_profile" ELSE Rejected(r, 400)
            /\ req'[r].pc \in {"wp_profile", "wp_insert", "wp_update"} /\ req'[r] # req[r] =>
                  req[r].pc \in {"wp_user", "wp_profile"}]_vars

\* a RESIDENT who already has a WorkerProfile, from the time they were a
\* WORKER, has just been refused with 400
C9_Witness ==
    /\ resp.op = "POST /worker-profile" /\ resp.status = 400
    /\ IsResident(resp.caller)
    /\ WorkerProfilesOfIdentity(resp.caller) # {}

-----------------------------------------------------------------------------
(* Conflicts of POST /profile *)

\* the write of the POST /profile in slot r
ProfileWrite(r) == StepAt(r, "pf_update") \/ StepAt(r, "pf_insert")

\* the phone of the request in slot r is stored on another user's Profile
PhoneOfAnother(r) ==
    \E p \in profiles \ ProfilesOfIdentity(req[r].caller) : p.phone = Trim(req[r].body.phone)

\* the request in slot r is about to insert, and its user has a Profile by now
LostInsert(r) == req[r].pc = "pf_insert" /\ ProfilesOfIdentity(req[r].caller) # {}

Conflict(r, msg) == Rejected(r, 409) /\ resp'.out = Err(msg)

NoSharedPhone == \A p1, p2 \in profiles : p1.phone = p2.phone => p1 = p2

\* C11 as claimed: a POST /profile whose phone is stored on another user's
\* Profile answers 409 "Phone number already in use", every other uniqueness
\* violation answers 409 "Profile already exists", neither creates or
\* modifies a Profile row, and no two Profiles ever share a phone.
C11_PhoneConflictAsClaimed ==
    /\ []NoSharedPhone
    /\ [][\A r \in Slots :
            ProfileWrite(r) =>
                /\ PhoneOfAnother(r) => Conflict(r, "Phone number already in use")
                /\ ~PhoneOfAnother(r) /\ LostInsert(r) => Conflict(r, "Profile already exists")]_vars

\* C11, amended: the phone conflict is reported unless the request is a
\* first-time insert whose user has got a Profile in the meantime; that
\* insert, like every other uniqueness violation, answers 409 "Profile
\* already exists".  Neither creates or modifies a Profile row, a 409 is
\* sent in no other case, and no two Profiles ever share a phone.
C11_PhoneConflict ==
    /\ []NoSharedPhone
    /\ [][\A r \in Slots :
            /\ ProfileWrite(r) =>
                /\ LostInsert(r) => Conflict(r, "Profile already exists")
                /\ PhoneOfAnother(r) /\ ~LostInsert(r) => Conflict(r, "Phone number already in use")
                /\ ~PhoneOfAnother(r) /\ ~LostInsert(r) => resp'.status # 409
            /\ Answers(r) /\ resp'.status = 409 => req[r].op = "POST /profile" /\ ProfileWrite(r)]_vars

\* a request was just refused the phone of another user's Profile, which it
\* sent with surrounding blanks, while the caller keeps a Profile of their own
C11_Witness ==
    /\ resp.op = "POST /profile" /\ resp.status = 409
    /\ resp.out = Err("Phone number already in use")
    /\ ProfilesOfIdentity(resp.caller) # {}
    /\ \E p \in profiles \ ProfilesOfIdentity(resp.caller) : p.phone = "9000000001"
    /\ \A p \in ProfilesOfIdentity(resp.caller) : p.phone = "9000000002"

-----------------------------------------------------------------------------
(* POST /auth/sync *)

\* the rows of users_view of identity i
ViewOfIdentity(i) == {v \in users_view : v.auth_id = i}

\* this step adds one User of identity i with the default role, and nothing else
CreatesResident(i) ==
    /\ \E u \in users' \ users :
            /\ users' = users \cup {u}
            /\ u.auth_id = i /\ u.role = "RESIDENT"
            /\ \A v \in users : v.id # u.id
    /\ UNCHANGED <<profiles, worker_profiles, service_posts, requirements>>

\* C12: POST /auth/sync for an identity that has a User answers 200 with that
\* user at its first store call and writes nothing, so the User keeps its role
\* and repeating the call changes nothing; for an identity without a User it
\* goes on to create exactly one User, with role RESIDENT, and answers 200
\* with it.  When another request created the User in between, the insert is
\* refused and nothing is written.
C12_AuthSyncIdempotent ==
    [][\A r \in Slots :
        LET c == req[r].caller IN
        /\ StepAt(r, "as_load") =>
              /\ UNCHANGED store
              /\ IF UsersOfIdentity(c) # {}
                 THEN Answers(r) /\ resp'.status = 200 /\ resp'.out = [user |-> ViewOfIdentity(c)]
                 ELSE req'[r].pc = "as_insert"
        /\ StepAt(r, "as_insert") =>
              IF UsersOfIdentity(c) = {}
              THEN CreatesResident(c) /\ req'[r].pc = "as_refetch"
              ELSE Rejected(r, 500)
        /\ StepAt(r, "as_refetch") =>
              /\ UNCHANGED store
              /\ Answers(r) /\ resp'.status = 200
              /\ Cardinality(resp'.out.user) = 1
              /\ \A v \in resp'.out.user : v.auth_id = c
        /\ Answers(r) /\ req[r].op = "POST /auth/sync" /\ resp'.status = 200 =>
              Cardinality({u \in users' : u.auth_id = c}) = 1]_vars

\* a sync has just answered with the caller's User, a WORKER, while the other
\* identity has the User a sync created
C12_Witness ==
    /\ resp.op = "POST /auth/sync" /\ resp.status = 200
    /\ \E v \in resp.out.user : v.auth_id = resp.caller /\ v.role = "WORKER"
    /\ \E u \in users : u.auth_id = resp.caller /\ u.role = "WORKER"
    /\ \E u \in users : u.auth_id # resp.caller /\ u.role = "RESIDENT"

-----------------------------------------------------------------------------
(* POST /verify-me *)

\* a text is present when it is neither null nor empty
Present(x) == x \notin {NULL, ""}

\* identity i has a Profile with name and phone present
BasicComplete(i) == \E p \in ProfilesOfIdentity(i) : Present(p.name) /\ Present(p.phone)

\* identity i has a WorkerProfile with type, charge and experience present
WorkerComplete(i) ==
    \E w \in WorkerProfilesOfIdentity(i) :
        Present(w.worker_type) /\ w.charges \in Nat /\ w.experience_yrs \in Nat

Eligible(i) == BasicComplete(i) /\ (IsWorker(i) => WorkerComplete(i))

\* the only change of this step: the Profiles of identity i become verified
VerifiesOnly(i) ==
    /\ profiles' = (profiles \ ProfilesOfIdentity(i))
                        \cup {[p EXCEPT !.verified = TRUE] : p \in ProfilesOfIdentity(i)}
    /\ UNCHANGED <<users, worker_profiles, service_posts, requirements, nextId>>

\* what both statements of C13 share: the handler reads, then writes only
\* after a read that found the caller eligible, and the write only sets
\* verified on the caller's Profile
VerifyMeWrites(r) ==
    /\ StepAt(r, "vm_load") =>
          /\ UNCHANGED store
          /\ req'[r].pc = "vm_update" \/ Answers(r)
          /\ req'[r].pc = "vm_update" => Eligible(req[r].caller)
    /\ StepAt(r, "vm_update") =>
          /\ Answers(r)
          /\ IF resp'.status = 200 THEN VerifiesOnly(req[r].caller) ELSE UNCHANGED store

\* C13 as claimed: POST /verify-me sets verified only when the caller is
\* eligible (Profile with name and phone and, for a WORKER, a WorkerProfile
\* with type, charge and experience); a caller who is not eligible gets 400
\* and no Profile row changes.
C13_VerifyMeAsClaimed ==
    [][\A r \in Slots :
        /\ VerifyMeWrites(r)
        /\ StepAt(r, "vm_load") /\ ~Eligible(req[r].caller) => Rejected(r, 400)]_vars

\* C13, amended: as claimed for a caller who has a User row; a caller without
\* one gets 404 instead of 400, and again no Profile row changes.
C13_VerifyMe ==
    [][\A r \in Slots :
        /\ VerifyMeWrites(r)
        /\ StepAt(r, "vm_load") /\ ~Eligible(req[r].caller) =>
              Rejected(r, IF UsersOfIdentity(req[r].caller) = {} THEN 404 ELSE 400)]_vars

\* a WORKER with both profiles complete has just been verified by
\* POST /verify-me, which answered with the verified Profile
C13_Witness ==
    /\ resp.op = "POST /verify-me" /\ resp.status = 200
    /\ IsWorker(resp.caller) /\ Eligible(resp.caller)
    /\ \A p \in ProfilesOfIdentity(resp.caller) : p.verified = TRUE
    /\ \E p \in resp.out.profile : p \in profiles

\* C14: for a caller whose User exists, POST /verify-me answers 400 with
\* missing.basicProfile = true whenever name or phone is absent, whatever the
\* role; in every 400 missing.workerProfile is true exactly when the caller is
\* a WORKER without a complete WorkerProfile, and at least one of the two
\* flags is true.
C14_VerifyMeMissing ==
    [][\A r \in Slots :
        LET c == req[r].caller IN
        StepAt(r, "vm_load") /\ UsersOfIdentity(c) # {} =>
            /\ ~BasicComplete(c) => Rejected(r, 400) /\ resp'.out.missing.basicProfile = TRUE
            /\ Answers(r) =>
                  /\ resp'.status = 400
                  /\ resp'.out.missing.workerProfile = (IsWorker(c) /\ ~WorkerComplete(c))
                  /\ resp'.out.missing.basicProfile \/ resp'.out.missing.workerProfile]_vars

\* a RESIDENT whose Profile holds a name and an empty phone (sent as blanks)
\* has just been refused, with only the basic profile reported missing
C14_Witness ==
    /\ resp.op = "POST /verify-me" /\ resp.status = 400
    /\ resp.out.missing = [basicProfile |-> TRUE, workerProfile |-> FALSE]
    /\ \E u \in UsersOfIdentity(resp.caller) : u.role = "RESIDENT"
    /\ \E p \in ProfilesOfIdentity(resp.caller) : p.name = "Asha" /\ p.phone = ""

-----------------------------------------------------------------------------
(* POST /admin/verify-user *)

\* the only change of this step: the Profile of user id gets verified = flag
SetsVerified(id, flag) ==
    /\ profiles' = {IF p.user_id = id THEN [p EXCEPT !.verified = flag] ELSE p : p \in profiles}
    /\ UNCHANGED <<users, worker_profiles, service_posts, requirements, nextId>>

\* C15: POST /admin/verify-user by any authenticated caller, targeting by
\* user id or by identity any user who has a Profile, the caller or somebody
\* else, sets that Profile's verified to the requested flag (true when the
\* request names none) without an eligibility check: it finds every user by
\* identity and writes every Profile, as a store client with elevated
\* privilege does.
C15_AdminVerify ==
    [][\A r \in Slots :
        /\ StepAt(r, "av_user") =>
              \A u \in users :
                  u.auth_id = req[r].body.authId /\ (\E p \in profiles : p.user_id = u.id)
                      => req'[r].pc = "av_update" /\ req'[r].loc.targetUserId = u.id
        /\ StepAt(r, "av_update") =>
              \A p \in profiles :
                  p.user_id = req[r].loc.targetUserId
                      => /\ Answers(r) /\ resp'.status = 200
                         /\ SetsVerified(p.user_id, Verified(req[r].body))]_vars

-----------------------------------------------------------------------------
(* requireAuth *)

\* the request q did not authenticate: its token is missing, or is not the
\* valid token of an account (invalid, expired), or its verification threw
Unauthenticated(q) == q.token \notin Accounts \/ q.auth = "thrown"

\* C16: on every protected route a request whose token is missing, invalid
\* or expired, or whose verification throws, is answered 401 on arrival and
\* never becomes a request in progress: the step that answers it reads and
\* writes nothing, and every protected request in progress carries the valid
\* token of the identity it acts for.
C16_RequireAuth ==
    /\ [](\A r \in Slots :
            req[r].pc # "idle" /\ req[r].op \in Protected =>
                /\ req[r].auth = "user" /\ ~Unauthenticated(req[r])
                /\ req[r].caller \in Identities /\ GetUser(req[r].token) = {req[r].caller})
    /\ [][resp'.pc = "done" /\ resp'.op \in Protected /\ Unauthenticated(resp') =>
            /\ resp'.status = 401
            /\ UNCHANGED <<store, req>>]_vars
    /\ [][resp'.status = 401 =>
            resp'.op \in Protected /\ Unauthenticated(resp') /\ UNCHANGED <<store, req>>]_vars

\* a request for the caller's own services, sent with the valid token of an
\* account that has a User, was answered 401 because the verification threw
C16_Witness ==
    /\ resp.op = "GET /my-services" /\ resp.status = 401 /\ resp.auth = "thrown"
    /\ resp.out = Err("Auth failed")
    /\ \E u \in users : GetUser(resp.token) = {u.auth_id}
    /\ service_posts # {}

-----------------------------------------------------------------------------
(* Start-up configuration *)

Configured(v) == Truthy(proc.env[v])

\* the process never listens with one of the variables vs absent, and exits
\* only over one of them
ListensOnlyWith(vs) ==
    /\ proc.pc = "listening" => \A v \in vs : Configured(v)
    /\ proc.pc = "exited" => proc.missing \in vs /\ ~Configured(proc.missing)
    /\ proc.pc # "crashed"

\* C17 as claimed: the process listens only if all five configuration values
\* are present (store URL, store service credential, store public
\* credential, translation credential, allowed cross-origin clients), and
\* exits before the listener binds when one of them is absent.
C17_StartupAsClaimed == ListensOnlyWith(EnvVars)

\* C17, amended: the same for the four values the start-up check names; the
\* allowed cross-origin client is optional, and without it the process
\* listens with the two origins of the source.
C17_Startup ==
    /\ ListensOnlyWith(EnvVars \ {"CLIENT_ORIGIN"})
    /\ proc.pc = "listening" =>
          proc.origins = {"http://localhost:3000", "https://cookmate-flame.vercel.app"}
                            \cup (IF Configured("CLIENT_ORIGIN") THEN {"set"} ELSE {})

\* the process has exited over the translation credential, set to the empty
\* string, after the three store values passed
C17_Witness ==
    /\ proc.pc = "exited" /\ proc.missing = "GEMINI_API_KEY"
    /\ proc.env["GEMINI_API_KEY"] = "" /\ proc.i = 4

-----------------------------------------------------------------------------
(* Translation *)

TranslationRoutes == {"POST /translate", "POST /translate-batch"}

\* the step just taken answered a translation request with a translation
Translates(op) == resp'.pc = "done" /\ resp'.op = op /\ resp'.status = 200

SameLanguage(q) == q.out.languages.fromLanguage = q.out.languages.toLanguage

\* C18: translateText with fromLanguage equal to toLanguage returns the text
\* it was given, in whatever form, and calls the external service for none:
\* both routes answer such a request on arrival, with each text unchanged
\* and no call issued, and a request waits for the external service only
\* with two different languages.
C18_SameLanguage ==
    /\ [](\A r \in Slots :
            req[r].pc \in {"tr_call", "tb_chunk"} => req[r].body.fromLanguage # req[r].body.toLanguage)
    /\ [][Translates("POST /translate") /\ SameLanguage(resp') =>
            /\ UNCHANGED req
            /\ resp'.out.translatedText = resp'.out.originalText
            /\ resp'.loc.call = Unissued]_vars
    /\ [][Translates("POST /translate-batch") /\ SameLanguage(resp') =>
            /\ UNCHANGED req
            /\ resp'.out.translatedTexts = resp'.out.originalTexts
            /\ \A k \in DOMAIN resp'.loc.calls : resp'.loc.calls[k] = Unissued]_vars

\* a quoted text was sent to be translated from Hindi to Hindi and has come
\* back with its quotes
C18_Witness ==
    /\ resp.op = "POST /translate" /\ resp.status = 200
    /\ resp.out.languages = [fromLanguage |-> "hi", toLanguage |-> "hi"]
    /\ resp.out.translatedText = Text("rice", "en", "quoted")

\* C19: when the external service fails during translateText the text comes
\* back as it was sent and nothing is thrown: every external call that ends,
\* however it ends, lets its request go on or answers it with 200, a text
\* whose call failed is answered unchanged, and the translation routes send
\* no status but 200 and, on arrival, 400.
C19_FailureKeepsText ==
    /\ [][\A r \in Slots :
            StepAt(r, "tr_call") =>
                /\ Translates("POST /translate") /\ Answers(r)
                /\ resp'.loc.call # Pending
                /\ resp'.loc.call = Failure => resp'.out.translatedText = req[r].body.text]_vars
    /\ [][\A r \in Slots :
            StepAt(r, "tb_chunk") =>
                \/ req'[r].pc = "tb_chunk"
                \/ /\ Translates("POST /translate-batch") /\ Answers(r)
                   /\ \A k \in DOMAIN req[r].body.texts :
                         resp'.loc.calls[k] = Failure =>
                            resp'.out.translatedTexts[k] = req[r].body.texts[k]]_vars
    /\ [][resp'.op \in TranslationRoutes =>
            resp'.status = 200 \/ (resp'.status = 400 /\ UNCHANGED req)]_vars

\* a batch whose call for the quoted second text failed while the call for
\* the first succeeded has been answered with the second text as it was sent
C19_Witness ==
    /\ resp.op = "POST /translate-batch" /\ resp.status = 200
    /\ Len(resp.out.originalTexts) >= 2
    /\ resp.loc.calls[2] = Failure /\ resp.loc.calls[1] # Failure
    /\ resp.out.translatedTexts[2] = Text("dal", "en", "quoted")
    /\ resp.out.translatedTexts[1] = Text("rice", "hi", "plain")

\* what the i-th text of the answered batch must have become: itself when
\* the languages are the same or its call failed, otherwise what the service
\* answered for it, without blanks and quotes around it
Expected(q, k) ==
    LET text == q.out.originalTexts[k] IN
    IF SameLanguage(q) \/ q.loc.calls[k] = Failure THEN text
    ELSE Text(text.word, q.out.languages.toLanguage, "plain")

\* C20: translateBatch returns a list as long as texts whose i-th element is
\* the translation of texts[i], or texts[i] itself when its call failed, for
\* every length from 0 on, multiple of 5 or not, and in whatever order the
\* calls of a chunk end; every text between two languages got exactly one
\* call, which has ended.
C20_BatchInOrder ==
    [][Translates("POST /translate-batch") =>
        /\ Len(resp'.out.translatedTexts) = Len(resp'.out.originalTexts)
        /\ DOMAIN resp'.loc.calls = DOMAIN resp'.out.originalTexts
        /\ \A k \in DOMAIN resp'.out.originalTexts :
              /\ resp'.out.translatedTexts[k] = Expected(resp', k)
              /\ ~SameLanguage(resp') =>
                    resp'.loc.calls[k] \in Outcomes(resp'.out.originalTexts[k],
                                                   resp'.out.languages.toLanguage)]_vars

\* a batch of one text more than a chunk holds has been answered: the call
\* of its first text failed, the one of its last text, alone in the second
\* chunk, answered in quotes
C20_Witness ==
    /\ resp.op = "POST /translate-batch" /\ resp.status = 200
    /\ Len(resp.out.translatedTexts) = batchSize + 1
    /\ resp.loc.calls[1] = Failure
    /\ resp.loc.calls[batchSize + 1].form = "quoted"
    /\ resp.out.translatedTexts[batchSize + 1].lang = "hi"

\* C21: detectLanguage returns one of the ten supported codes whatever the
\* text and whatever the external service replies, and en when the reply,
\* trimmed and in small letters, is none of the ten or the call failed.
C21_DetectLanguage ==
    [][resp'.pc = "done" /\ resp'.op = "POST /detect-language" /\ resp'.status = 200 =>
        /\ resp'.out.detectedLanguage \in SUPPORTED_LANGUAGES
        /\ resp'.loc.call = Failure => resp'.out.detectedLanguage = "en"
        /\ resp'.loc.call # Failure =>
              resp'.out.detectedLanguage =
                 IF TrimLower(resp'.loc.call.text) \in SUPPORTED_LANGUAGES
                 THEN TrimLower(resp'.loc.call.text) ELSE "en"]_vars

-----------------------------------------------------------------------------
(* Overlapping first-time upserts *)

\* another request of the same caller is, like the one in slot r, between
\* its read of "no Profile" and its insert
BothAboutToInsert(r, pc) ==
    \E r2 \in Slots \ {r} :
        req[r2].pc = pc /\ req[r].pc = pc /\ req[r2].caller = req[r].caller

WorkerProfileWrite(r) == StepAt(r, "wp_update") \/ StepAt(r, "wp_insert")

\* the values the body b of a POST /worker-profile asks for
HoldsValues(w, b) ==
    /\ w.worker_type = b.workerType
    /\ w.experience_yrs = (IF b.experienceYrs = {} THEN 0 ELSE TheRow(b.experienceYrs))
    /\ w.charges = b.charges

\* C23: POST /worker-profile is an upsert keyed by owner: no user ever has
\* two WorkerProfiles; a call that succeeds leaves exactly one WorkerProfile
\* of the caller, holding the values of that call, the same row as before
\* if there was one, and leaves every other WorkerProfile as it was; a
\* WorkerProfile changes in no other way, so it holds the values of the
\* latest successful call; and no step of POST /worker-profile changes a
\* Profile, its verified flag included.
C23_WorkerProfileUpsert ==
    /\ [](\A i \in Identities : Cardinality(WorkerProfilesOfIdentity(i)) <= 1)
    /\ [][/\ worker_profiles' # worker_profiles =>
               \E r \in Slots : WorkerProfileWrite(r) /\ resp'.status = 200
          /\ \A r \in Slots :
               /\ req[r].op = "POST /worker-profile" /\ req'[r] # req[r] => profiles' = profiles
               /\ WorkerProfileWrite(r) /\ resp'.status = 200 =>
                     LET c == req[r].caller
                         before == WorkerProfilesOfIdentity(c)
                         after == {w \in worker_profiles' : w \notin worker_profiles \ before} IN
                     /\ Answers(r)
                     /\ Cardinality(after) = 1
                     /\ resp'.out.data = after
                     /\ HoldsValues(TheRow(after), req[r].body)
                     /\ TheRow(after).user_id \in {u.id : u \in UsersOfIdentity(c)}
                     /\ before # {} => TheRow(after).id = TheRow(before).id
                     /\ worker_profiles' \ after = worker_profiles \ before]_vars

\* a WORKER with a verified Profile has just replaced the values of their
\* WorkerProfile, the first ever made: another user's was made after it
C23_Witness ==
    /\ resp.op = "POST /worker-profile" /\ resp.status = 200
    /\ \E w \in resp.out.data :
            /\ w.id = 1 /\ w.worker_type = "MAID" /\ w.experience_yrs = 3 /\ w.charges = 500
            /\ WorkerProfilesOfIdentity(resp.caller) = {w}
    /\ \E p \in ProfilesOfIdentity(resp.caller) : p.verified
    /\ nextId.worker_profiles = 3

\* the request in slot r is about to insert a WorkerProfile, and its user
\* has one by now
LostWorkerInsert(r) ==
    req[r].pc = "wp_insert" /\ \E w \in worker_profiles : w.user_id = req[r].loc.userId

\* C24: when two first-time POST /worker-profile requests of one WORKER
\* overlap, both having read that there is no WorkerProfile, exactly one
\* WorkerProfile exists afterwards and the request that inserts second is
\* answered 409.
C24_OverlappingWorkerProfiles ==
    /\ [](\A i \in Identities : Cardinality(WorkerProfilesOfIdentity(i)) <= 1)
    /\ [][\A r \in Slots :
            StepAt(r, "wp_insert") =>
                /\ LostWorkerInsert(r) => Rejected(r, 409)
                /\ BothAboutToInsert(r, "wp_insert") /\ ~LostWorkerInsert(r) =>
                      /\ resp'.status = 200
                      /\ Cardinality({w \in worker_profiles' : w.user_id = req[r].loc.userId}) = 1]_vars

-----------------------------------------------------------------------------
(* The fan-out of translateBatch *)

\* the calls of the batch request q that are in flight, and those that ended
InFlight(q) == {k \in DOMAIN q.loc.calls : q.loc.calls[k] = Pending}

Ended(q) == {k \in DOMAIN q.loc.calls : q.loc.calls[k] \notin {Unissued, Pending}}

\* the chunk, counted from 0, the k-th text belongs to
ChunkOf(k) == (k - 1) \div 5

\* the chunks n texts make
Chunks(n) == (n + 4) \div 5

\* C25: during one translateBatch at most 5 external calls are in flight,
\* and those in flight belong to one chunk, every call of the chunks before
\* it having ended and none of the chunks after it being issued; a call that
\* was issued is never issued again and keeps its outcome once it ended; a
\* batch of n texts between two languages is answered after exactly one
\* call for each text, in ceil(n/5) chunks taken one after the other; and
\* the batch is answered if every call that is issued returns or fails.
C25_BatchFanOut ==
    /\ [](\A r \in Slots :
            req[r].pc = "tb_chunk" =>
                LET q == req[r] IN
                /\ Cardinality(InFlight(q)) <= 5
                /\ InFlight(q) # {}
                /\ \A j, k \in DOMAIN q.loc.calls :
                      /\ ChunkOf(j) < ChunkOf(k) /\ q.loc.calls[k] # Unissued => j \in Ended(q)
                      /\ k \in InFlight(q) => 5 * ChunkOf(k) = q.loc.i)
    /\ [][\A r \in Slots :
            req[r].pc = "tb_chunk" /\ req'[r].pc = "tb_chunk" =>
                /\ DOMAIN req'[r].loc.calls = DOMAIN req[r].loc.calls
                /\ \A k \in Ended(req[r]) : req'[r].loc.calls[k] = req[r].loc.calls[k]
                /\ \A k \in InFlight(req[r]) : req'[r].loc.calls[k] # Unissued
                /\ req'[r].loc.i \in {req[r].loc.i, req[r].loc.i + 5}
                /\ req'[r].loc.i # req[r].loc.i => Cardinality(InFlight(req[r])) = 1]_vars
    /\ [][Translates("POST /translate-batch") /\ ~SameLanguage(resp') =>
            LET n == Len(resp'.out.originalTexts) IN
            /\ Ended(resp') = 1..n
            /\ resp'.loc.i = 5 * Chunks(n)
            /\ \A r \in Slots :
                  Answers(r) /\ n > 0 =>
                      /\ InFlight(req[r]) \cup Ended(req[r]) = 1..n
                      /\ \A k \in Ended(req[r]) : resp'.loc.calls[k] = req[r].loc.calls[k]]_vars
    /\ \A r \in In(1) : (req[r].pc = "tb_chunk") ~> (req[r].pc = "idle")

\* the one call of the second chunk is in flight; the five of the first
\* have ended, the first of them in a failure
C25_Witness ==
    \E r \in Slots :
        /\ req[r].pc = "tb_chunk"
        /\ Len(req[r].body.texts) = 6
        /\ InFlight(req[r]) = {6}
        /\ Ended(req[r]) = 1..5
        /\ req[r].loc.calls[1] = Failure
        /\ Len(req[r].loc.results) = 5

-----------------------------------------------------------------------------
(* Role re-selection *)

\* C26: POST /select-role changes only the role of the caller's User: no
\* step of it changes a Profile, a WorkerProfile, a ServicePost or a
\* Requirement, nor the User of anybody else, and the caller's User keeps
\* its id; GET /services returns every active post, whatever the role of
\* its owner is now, so the active posts of a WORKER who became RESIDENT
\* are still returned and their WorkerProfile is still there.
C26_SelectRoleFrame ==
    /\ [][\A r \in Slots :
            req[r].op = "POST /select-role" /\ req'[r] # req[r] =>
                /\ UNCHANGED <<profiles, worker_profiles, service_posts, requirements>>
                /\ \A u \in users :
                      IF u.auth_id = req[r].caller
                      THEN \E v \in users' : v.id = u.id /\ v.auth_id = u.auth_id
                      ELSE u \in users'
                /\ \A v \in users' : v \in users \/ v.auth_id = req[r].caller]_vars
    /\ [][\A r \in Slots :
            StepAt(r, "gs_list") =>
                /\ Answers(r) /\ resp'.status = 200
                /\ \A p \in service_posts :
                      p.is_active => \E k \in DOMAIN resp'.out.services :
                                        resp'.out.services[k].id = p.id]_vars

\* GET /services has just returned the active post of a user who has a
\* Profile and a WorkerProfile and is RESIDENT now
C26_Witness ==
    /\ resp.op = "GET /services" /\ resp.status = 200
    /\ \E v \in Range(resp.out.services) :
          /\ v.role = "RESIDENT" /\ v.is_active
          /\ \E w \in worker_profiles : w.id = v.worker_id /\ w.user_id = v.user_id
          /\ \E p \in profiles : p.user_id = v.user_id
          /\ \E u \in users : u.id = v.user_id /\ u.role = "RESIDENT"

-----------------------------------------------------------------------------
(* Overlapping toggles *)

\* the stored active flag of post id, as a set: empty when there is no such post
ActiveFlag(posts, id) == {p.is_active : p \in {x \in posts : x.id = id}}

\* C27: every PATCH /services/:id/toggle that succeeds flips the stored
\* active flag of its post, whatever other toggles of the owner are in
\* progress, so that after n successful toggles the flag is the initial one
\* for even n and its negation for odd n; nothing else changes the flag of
\* a stored post.
C27_ToggleFlips ==
    [][/\ \A r \in Slots :
            StepAt(r, "tg_update") /\ resp'.status = 200 =>
                /\ ActiveFlag(service_posts, req[r].id) # {}
                /\ ActiveFlag(service_posts', req[r].id)
                      = {~f : f \in ActiveFlag(service_posts, req[r].id)}
       /\ \A id \in 1..MaxRows :
            /\ ActiveFlag(service_posts, id) # {} /\ ActiveFlag(service_posts', id) # {}
            /\ ActiveFlag(service_posts', id) # ActiveFlag(service_posts, id)
            => \E r \in Slots : StepAt(r, "tg_update") /\ req[r].id = id /\ resp'.status = 200]_vars

-----------------------------------------------------------------------------
(* Role gates next to role re-selection *)

\* the request in slot r writes its row in this step
Writes(r, pcs) == \E pc \in pcs : StepAt(r, pc) /\ resp'.status = 200

\* C28: the role gates hold when a POST /select-role of the same caller
\* overlaps: a WorkerProfile or a ServicePost is written only at a moment
\* when the stored role of the caller is not RESIDENT, a Requirement only
\* at a moment when it is not WORKER.
C28_GatesUnderReselection ==
    [][\A r \in Slots :
        /\ Writes(r, {"wp_insert", "wp_update", "ps_insert"}) => ~IsResident(req[r].caller)
        /\ Writes(r, {"pr_insert"}) => ~IsWorker(req[r].caller)]_vars

-----------------------------------------------------------------------------
(* Replacement of a Profile *)

\* C29: a POST /profile that succeeds on an existing Profile replaces it by
\* what the request says: name and phone (trimmed) are those of the body, a
\* block the body leaves out (or sends empty) is stored as null whatever it
\* was before, and verified is true whatever it was before, also after
\* POST /admin/verify-user had set it to false; the row keeps its id and
\* its user, and no other Profile changes.
C29_ProfileReplaced ==
    [][\A r \in Slots :
        StepAt(r, "pf_update") /\ resp'.status = 200 =>
            LET before == {p \in profiles : p.user_id = req[r].loc.userId}
                after == {p \in profiles' : p.user_id = req[r].loc.userId}
                b == req[r].body IN
            /\ Cardinality(before) = 1 /\ Cardinality(after) = 1
            /\ resp'.out.data = after
            /\ profiles' \ after = profiles \ before
            /\ TheRow(after) =
                  [id |-> TheRow(before).id, user_id |-> req[r].loc.userId,
                   name |-> b.name,
                   phone |-> IF b.phone = " 9000000001 " THEN "9000000001" ELSE b.phone,
                   block |-> IF b.block \in {NULL, ""} THEN NULL ELSE b.block,
                   verified |-> TRUE]]_vars

\* a request that leaves out the block has read the caller's Profile and is
\* about to write: the Profile has block J and had its verification taken
\* back
C29_Witness ==
    \E r \in Slots :
        /\ req[r].pc = "pf_update" /\ req[r].body.block = NULL
        /\ \E p \in profiles :
              p.user_id = req[r].loc.userId /\ p.block = "J" /\ ~p.verified
                /\ p.name # req[r].body.name

-----------------------------------------------------------------------------
(* The open flag of a Requirement *)

\* C30: no stored Requirement is ever closed: a Requirement is created open,
\* a stored Requirement stays exactly as it is until a DELETE
\* /requirements/:id of its owner removes it, and GET /requirements returns
\* every stored Requirement, so a Requirement leaves the list only by being
\* deleted by its owner.
C30_RequirementsStayOpen ==
    /\ [](\A x \in requirements : x.is_open = TRUE)
    /\ [][/\ \A x \in requirements :
               \/ x \in requirements'
               \/ /\ \A y \in requirements' : y.id # x.id
                  /\ \E r \in Slots :
                        /\ StepAt(r, "dr_delete") /\ req[r].id = x.id
                        /\ OwnsRequirement(req[r].caller, x.id)
          /\ \A y \in requirements' \ requirements :
               /\ y.is_open = TRUE
               /\ \E r \in Slots : StepAt(r, "pr_insert") /\ resp'.out = [data |-> {y}]
          /\ \A r \in Slots :
               StepAt(r, "gr_list") =>
                   {v.id : v \in Range(resp'.out.requirements)} = {x.id : x \in requirements}]_vars

\* GET /requirements has just returned the one Requirement that is stored;
\* another one was deleted before
C30_Witness ==
    /\ resp.op = "GET /requirements" /\ resp.status = 200
    /\ Len(resp.out.requirements) = 1
    /\ \E x \in requirements : resp.out.requirements[1].id = x.id /\ x.is_open
    /\ \E id \in 1..MaxRows : Deleted(id)

====
